---------------------------- MODULE Spec2Model ----------------------------
(***************************************************************************)
(* Model of parrisma/mcp_server:                                           *)
(*   - SecureStore (src/secure_mcp/store.py), the group-scoped key/value   *)
(*     store, and the two tool handlers of DataGroupServiceServer          *)
(*     (src/secure_mcp/server.py) that call it;                            *)
(*   - MCPAdapterProxy.call_tool (src/nginx/litellm-to-openwebui-proxy.py),*)
(*     the POST handler of the adapter, with VaultClient.get_kv            *)
(*     (src/nginx/vault.py) behind it.                                     *)
(***************************************************************************)
EXTENDS Integers, Sequences, FiniteSets, TLC

(***************************************************************************)
(* Bounds of the model.                                                    *)
(***************************************************************************)
NumKeys == 2
NumGroups == 2

NumTasks == 2
NumTokens == 2
NumSecrets == 2

Keys == 1..NumKeys
\* values are opaque to the store, which only copies them: two distinct
\* ones tell any two writes apart ("ok" is the value health_check stores)
Values == {"ok", "changed"}
Groups == 1..NumGroups

\* A Python dict is a function whose DOMAIN is the set of keys present.
EmptyDict == [x \in {} |-> 0]

DictSet(d, k, v) == [x \in (DOMAIN d) \cup {k} |-> IF x = k THEN v ELSE d[x]]

\* dict.get(key, default)
DictGet(d, k, default) == IF k \in DOMAIN d THEN d[k] ELSE default

NoCall == [op |-> "none"]
NoResult == [status |-> "none"]

VARIABLES
    store,      \* SecureStore.store : key -> value
    groups,     \* SecureStore.groups : key -> set of groups
    lastCall,   \* the last store operation invoked and its arguments
    lastResult, \* what that operation returned
    preExisted, \* history: lastCall's key was in the value map before the call
    preOwned,   \* history: lastCall's group owned the key before the call
    putters,    \* history: key -> the groups that have called put on it
    lastPut,    \* history: key -> the value of the most recent put
    followsPut  \* history: lastCall is a get(k, g) made right after a put(k, _, g)

VARIABLES
    pc,          \* where call_tool is in its body for the request in hand
    request,     \* the inbound POST: tool_id, headers, body
    body_json,   \* call_tool's local body_json
    payload,     \* call_tool's local payload
    fwd_headers, \* call_tool's local fwd_headers, unbound until assigned
    warnings,    \* what call_tool has logged with logging.warning
    vaultLog,    \* the get_kv calls made for this request and their outcome
    posts,       \* the upstream POSTs issued for this request
    response,    \* what the caller of the adapter receives
    adapter,     \* the MCPAdapterProxy object: _settings and _vault_client
    lastForwarded \* history: the secret the last finished request sent on

VARIABLES
    vpc,         \* where get_kv is in its body for the call in hand
    vcall,       \* the call: the backend it meets, key and version argument
    vver,        \* get_kv's local ver
    vreqs,       \* the GETs the call has issued, in order
    vret         \* what the call returned or raised

VARIABLES
    running,     \* the tool invocation the event loop is executing, 0 if none
    tpc,         \* per invocation: the statement it is at
    top,         \* per invocation: the tool called and its arguments
    tret,        \* per invocation: what the tool returned
    sstore,      \* the value map if every store call so far ran on its own
    sgroups,     \* the group map if every store call so far ran on its own
    sret         \* per invocation: what its store call returns run on its own

VARIABLES
    mstore,      \* SecureStore.store of the server the test client talks to
    mgroups,     \* SecureStore.groups of that server
    mlisting,    \* the tool names the server at server_url lists
    cmode,       \* main: "health_check" or "run_tests", "none" before it runs
    cpc,         \* where the client is in the routine it runs
    tool_names,  \* health_check's local tool_names
    get_result,  \* health_check's local get_result (the dict the tool returned)
    get_data,    \* health_check's local get_data
    success,     \* what health_check returned
    test_outcome \* how run_tests ended: what it raised, and in which test

storeVars == <<store, groups, lastCall, lastResult, preExisted, preOwned,
               putters, lastPut, followsPut>>

proxyVars == <<pc, request, body_json, payload, fwd_headers, warnings,
               vaultLog, posts, response, adapter, lastForwarded>>

vaultVars == <<vpc, vcall, vver, vreqs, vret>>

taskVars == <<running, tpc, top, tret, sstore, sgroups, sret>>

clientVars == <<mstore, mgroups, mlisting, cmode, cpc, tool_names,
                get_result, get_data, success, test_outcome>>

\* what a step of a tool invocation leaves alone
notTaskVars == <<lastCall, lastResult, preExisted, preOwned, putters,
                 lastPut, followsPut, proxyVars, vaultVars, clientVars>>

vars == <<storeVars, proxyVars, taskVars, vaultVars, clientVars>>

(***************************************************************************)
(* SecureStore                                                             *)
(***************************************************************************)

\* f"Key '{key}' not found"
KeyNotFoundMessage(key) == <<"Key '", key, "' not found">>

\* f"Group {group} does not contain key {key}"
GroupMismatchMessage(group, key) ==
    <<"Group ", group, " does not contain key ", key>>

\* PutIsUpdate with the group test dropped: any existing key counts
PutIsUpdateKeyOnly(s, g, key, group) == key \in DOMAIN s

\* line 11 looking the group up among the keys of groups, not in the key's set
PutIsUpdateGroupAmongKeys(s, g, key, group) ==
    key \in DOMAIN s /\ group \in DOMAIN g

\* store.py line 11: the key is already held by the group
PutIsUpdate(s, g, key, group) ==
    key \in DOMAIN s /\ group \in DictGet(g, key, {})

\* GroupOwnsKey with the membership test weakened to "the key has owners"
GroupOwnsKeyAnyOwner(g, key, group) == DictGet(g, key, {}) # {}

\* store.py line 25: the group may read the key
GroupOwnsKey(g, key, group) == group \in DictGet(g, key, {})

\* put that keeps the value of an existing key when a new group writes it
putKeepsOldValue(s, g, key, value, group) ==
    IF PutIsUpdate(s, g, key, group)
    THEN [store  |-> DictSet(s, key, value),
          groups |-> g,
          ret    |-> [status |-> "updated", key |-> key, group |-> group]]
    ELSE [store  |-> IF key \in DOMAIN s THEN s ELSE DictSet(s, key, value),
          groups |-> IF key \in DOMAIN g
                     THEN DictSet(g, key, g[key] \cup {group})
                     ELSE DictSet(g, key, {group}),
          ret    |-> [status |-> "created", key |-> key, group |-> group]]

\* put that replaces the owning set instead of extending it
putReplacesOwners(s, g, key, value, group) ==
    IF PutIsUpdate(s, g, key, group)
    THEN [store  |-> DictSet(s, key, value),
          groups |-> g,
          ret    |-> [status |-> "updated", key |-> key, group |-> group]]
    ELSE [store  |-> DictSet(s, key, value),
          groups |-> DictSet(g, key, {group}),
          ret    |-> [status |-> "created", key |-> key, group |-> group]]

\* put that keeps in the value map only the key it writes
putEvictsOtherKeys(s, g, key, value, group) ==
    IF PutIsUpdate(s, g, key, group)
    THEN [store  |-> DictSet(EmptyDict, key, value),
          groups |-> g,
          ret    |-> [status |-> "updated", key |-> key, group |-> group]]
    ELSE [store  |-> DictSet(EmptyDict, key, value),
          groups |-> IF key \in DOMAIN g
                     THEN DictSet(g, key, g[key] \cup {group})
                     ELSE DictSet(g, key, {group}),
          ret    |-> [status |-> "created", key |-> key, group |-> group]]

\* put that adds the group to the owning set of every key
putSharesOwners(s, g, key, value, group) ==
    IF PutIsUpdate(s, g, key, group)
    THEN [store  |-> DictSet(s, key, value),
          groups |-> g,
          ret    |-> [status |-> "updated", key |-> key, group |-> group]]
    ELSE [store  |-> DictSet(s, key, value),
          groups |-> [k \in DOMAIN g \cup {key} |->
                         DictGet(g, k, {}) \cup {group}],
          ret    |-> [status |-> "created", key |-> key, group |-> group]]

\* put that records the owning group only for a key it has seen before
putForgetsFirstOwner(s, g, key, value, group) ==
    IF PutIsUpdate(s, g, key, group)
    THEN [store  |-> DictSet(s, key, value),
          groups |-> g,
          ret    |-> [status |-> "updated", key |-> key, group |-> group]]
    ELSE [store  |-> DictSet(s, key, value),
          groups |-> IF key \in DOMAIN g
                     THEN DictSet(g, key, g[key] \cup {group})
                     ELSE DictSet(g, key, {}),
          ret    |-> [status |-> "created", key |-> key, group |-> group]]

\* SecureStore.put: the store after the call and what it returns
put(s, g, key, value, group) ==
    IF PutIsUpdate(s, g, key, group)
    THEN [store  |-> DictSet(s, key, value),
          groups |-> g,
          ret    |-> [status |-> "updated", key |-> key, group |-> group]]
    ELSE [store  |-> DictSet(s, key, value),
          groups |-> IF key \in DOMAIN g
                     THEN DictSet(g, key, g[key] \cup {group})
                     ELSE DictSet(g, key, {group}),
          ret    |-> [status |-> "created", key |-> key, group |-> group]]

\* get whose refusal quotes the value it withholds
getQuotesValue(s, g, key, group) ==
    IF key \notin DOMAIN s
    THEN [status |-> "error", message |-> KeyNotFoundMessage(key)]
    ELSE IF GroupOwnsKey(g, key, group)
         THEN [status |-> "success", key |-> key, value |-> s[key],
               group |-> group]
         ELSE [status |-> "error",
               message |-> GroupMismatchMessage(group, key) \o <<s[key]>>]

\* get that tests the group before the key
getChecksGroupFirst(s, g, key, group) ==
    IF ~GroupOwnsKey(g, key, group)
    THEN [status |-> "error",
          message |-> GroupMismatchMessage(group, key)]
    ELSE IF key \notin DOMAIN s
         THEN [status |-> "error", message |-> KeyNotFoundMessage(key)]
         ELSE [status |-> "success", key |-> key, value |-> s[key],
               group |-> group]

\* SecureStore.get: what it returns (it assigns nothing)
get(s, g, key, group) ==
    IF key \notin DOMAIN s
    THEN [status |-> "error", message |-> KeyNotFoundMessage(key)]
    ELSE IF GroupOwnsKey(g, key, group)
         THEN [status |-> "success", key |-> key, value |-> s[key],
               group |-> group]
         ELSE [status |-> "error",
               message |-> GroupMismatchMessage(group, key)]

\* SecureStore.__init__
StoreInit ==
    /\ store = EmptyDict
    /\ groups = EmptyDict
    /\ lastCall = NoCall
    /\ lastResult = NoResult
    /\ preExisted = FALSE
    /\ preOwned = FALSE
    /\ putters = EmptyDict
    /\ lastPut = EmptyDict
    /\ followsPut = FALSE

Put(key, value, group) ==
    LET r == put(store, groups, key, value, group) IN
    /\ store' = r.store
    /\ groups' = r.groups
    /\ lastCall' = [op |-> "put", key |-> key, value |-> value,
                    group |-> group]
    /\ lastResult' = r.ret
    /\ preExisted' = (key \in DOMAIN store)
    /\ preOwned' = (key \in DOMAIN groups /\ group \in groups[key])
    /\ putters' = DictSet(putters, key, DictGet(putters, key, {}) \cup {group})
    /\ lastPut' = DictSet(lastPut, key, value)
    /\ followsPut' = FALSE

\* get on a groups map that makes an entry for every key it is asked about
GetMakesEntry(key, group) ==
    /\ lastCall' = [op |-> "get", key |-> key, group |-> group]
    /\ lastResult' = get(store, groups, key, group)
    /\ preExisted' = (key \in DOMAIN store)
    /\ preOwned' = (key \in DOMAIN groups /\ group \in groups[key])
    /\ followsPut' = (/\ lastCall.op = "put"
                      /\ lastCall.key = key
                      /\ lastCall.group = group)
    /\ groups' = IF key \in DOMAIN groups THEN groups
                 ELSE DictSet(groups, key, {})
    /\ UNCHANGED <<store, putters, lastPut>>

Get(key, group) ==
    /\ lastCall' = [op |-> "get", key |-> key, group |-> group]
    /\ lastResult' = get(store, groups, key, group)
    /\ preExisted' = (key \in DOMAIN store)
    /\ preOwned' = (key \in DOMAIN groups /\ group \in groups[key])
    /\ followsPut' = (/\ lastCall.op = "put"
                      /\ lastCall.key = key
                      /\ lastCall.group = group)
    /\ UNCHANGED <<store, groups, putters, lastPut>>

StorePut ==
    /\ \E k \in Keys, v \in Values, g \in Groups : Put(k, v, g)
    /\ UNCHANGED <<proxyVars, taskVars, vaultVars, clientVars>>

StoreGet ==
    /\ \E k \in Keys, g \in Groups : Get(k, g)
    /\ UNCHANGED <<proxyVars, taskVars, vaultVars, clientVars>>

StoreNext == StorePut \/ StoreGet

(***************************************************************************)
(* DataGroupServiceServer (src/secure_mcp/server.py): put_key_value and    *)
(* get_value_by_key are coroutines run by one event loop on the one        *)
(* SecureStore.  A coroutine keeps the loop until it reaches a statement   *)
(* at which it awaits; SecureStore's methods are taken statement by        *)
(* statement.                                                              *)
(***************************************************************************)
Tasks == 1..NumTasks

ToolCalls ==
    {[op |-> "put", key |-> k, value |-> v, group |-> g] :
        k \in Keys, v \in Values, g \in Groups}
    \cup {[op |-> "get", key |-> k, value |-> 0, group |-> g] :
        k \in Keys, g \in Groups}

\* the statements of the handlers and of SecureStore after which a tool
\* coroutine would await, were an await (or a lock acquisition that may
\* suspend) put between the two writes of put
AwaitPointsBetweenWrites == {"P15"}

\* the statements of put_key_value / get_value_by_key and of the
\* SecureStore methods they call after which the coroutine awaits: the
\* handlers contain no await and put and get are plain methods
AwaitPoints == {}

TasksInit ==
    /\ running = 0
    /\ tpc = [t \in Tasks |-> "idle"]
    /\ top = [t \in Tasks |-> NoCall]
    /\ tret = [t \in Tasks |-> NoResult]
    /\ sstore = EmptyDict
    /\ sgroups = EmptyDict
    /\ sret = [t \in Tasks |-> NoResult]

\* after the statement at label, the loop stays with t or is released
LoopAfter(t, label) == IF label \in AwaitPoints THEN 0 ELSE t

\* a tools/call request arrives: FastMCP creates the coroutine
\* (invocations are numbered in their order of arrival)
Invoke(t) ==
    /\ tpc[t] = "idle"
    /\ \A u \in Tasks : u < t => tpc[u] # "idle"
    /\ tpc' = [tpc EXCEPT ![t] = "invoked"]
    /\ UNCHANGED <<running, top, tret, sstore, sgroups, sret, store, groups>>
    /\ UNCHANGED notTaskVars

\* the event loop starts the coroutine with the arguments of its request
\* (server.py lines 44-52 / 57-64, up to the call of the store), or
\* resumes it where it awaited
Schedule(t) ==
    /\ running = 0
    /\ tpc[t] \notin {"idle", "done"}
    /\ running' = t
    /\ IF tpc[t] = "invoked"
       THEN \E c \in ToolCalls :
                /\ top' = [top EXCEPT ![t] = c]
                /\ tpc' = [tpc EXCEPT ![t] =
                              IF c.op = "put" THEN "P11" ELSE "G23"]
       ELSE UNCHANGED <<top, tpc>>
    /\ UNCHANGED <<tret, sstore, sgroups, sret, store, groups>>
    /\ UNCHANGED notTaskVars

\* store.py line 11.  The call is placed in the serial order here.
PutTest(t) ==
    /\ running = t /\ tpc[t] = "P11"
    /\ LET c == top[t]
           r == put(sstore, sgroups, c.key, c.value, c.group)
       IN  /\ tpc' = [tpc EXCEPT ![t] =
                          IF PutIsUpdate(store, groups, c.key, c.group)
                          THEN "P12" ELSE "P15"]
           /\ sstore' = r.store
           /\ sgroups' = r.groups
           /\ sret' = [sret EXCEPT ![t] = r.ret]
    /\ running' = LoopAfter(t, "P11")
    /\ UNCHANGED <<top, tret, store, groups>>
    /\ UNCHANGED notTaskVars

\* store.py lines 12-13 and line 15
PutWriteValue(t) ==
    /\ running = t /\ tpc[t] \in {"P12", "P15"}
    /\ store' = DictSet(store, top[t].key, top[t].value)
    /\ IF tpc[t] = "P12"
       THEN /\ tret' = [tret EXCEPT ![t] =
                           [status |-> "updated", key |-> top[t].key,
                            group |-> top[t].group]]
            /\ tpc' = [tpc EXCEPT ![t] = "ret"]
       ELSE /\ tret' = tret
            /\ tpc' = [tpc EXCEPT ![t] = "P16"]
    /\ running' = LoopAfter(t, tpc[t])
    /\ UNCHANGED <<top, sstore, sgroups, sret, groups>>
    /\ UNCHANGED notTaskVars

\* store.py lines 16-20
PutWriteGroups(t) ==
    /\ running = t /\ tpc[t] = "P16"
    /\ LET k == top[t].key IN
       groups' = IF k \in DOMAIN groups
                 THEN DictSet(groups, k, groups[k] \cup {top[t].group})
                 ELSE DictSet(groups, k, {top[t].group})
    /\ tret' = [tret EXCEPT ![t] =
                   [status |-> "created", key |-> top[t].key,
                    group |-> top[t].group]]
    /\ tpc' = [tpc EXCEPT ![t] = "ret"]
    /\ running' = LoopAfter(t, "P16")
    /\ UNCHANGED <<top, sstore, sgroups, sret, store>>
    /\ UNCHANGED notTaskVars

\* store.py lines 23-24.  The call is placed in the serial order here.
GetTestKey(t) ==
    /\ running = t /\ tpc[t] = "G23"
    /\ sret' = [sret EXCEPT ![t] =
                   get(sstore, sgroups, top[t].key, top[t].group)]
    /\ IF top[t].key \notin DOMAIN store
       THEN /\ tret' = [tret EXCEPT ![t] =
                           [status |-> "error",
                            message |-> KeyNotFoundMessage(top[t].key)]]
            /\ tpc' = [tpc EXCEPT ![t] = "ret"]
       ELSE /\ tret' = tret
            /\ tpc' = [tpc EXCEPT ![t] = "G25"]
    /\ running' = LoopAfter(t, "G23")
    /\ UNCHANGED <<top, sstore, sgroups, store, groups>>
    /\ UNCHANGED notTaskVars

\* store.py lines 25-27
GetTestGroup(t) ==
    /\ running = t /\ tpc[t] = "G25"
    /\ tret' = [tret EXCEPT ![t] =
                   IF GroupOwnsKey(groups, top[t].key, top[t].group)
                   THEN [status |-> "success", key |-> top[t].key,
                         value |-> store[top[t].key],
                         group |-> top[t].group]
                   ELSE [status |-> "error",
                         message |-> GroupMismatchMessage(top[t].group,
                                                          top[t].key)]]
    /\ tpc' = [tpc EXCEPT ![t] = "ret"]
    /\ running' = LoopAfter(t, "G25")
    /\ UNCHANGED <<top, sstore, sgroups, sret, store, groups>>
    /\ UNCHANGED notTaskVars

\* server.py lines 53-54 / 65-66: the coroutine logs, returns and leaves
\* the loop
HandlerReturn(t) ==
    /\ running = t /\ tpc[t] = "ret"
    /\ tpc' = [tpc EXCEPT ![t] = "done"]
    /\ running' = 0
    /\ UNCHANGED <<top, tret, sstore, sgroups, sret, store, groups>>
    /\ UNCHANGED notTaskVars

TasksNext ==
    \E t \in Tasks :
        \/ Invoke(t)
        \/ Schedule(t)
        \/ PutTest(t)
        \/ PutWriteValue(t)
        \/ PutWriteGroups(t)
        \/ GetTestKey(t)
        \/ GetTestGroup(t)
        \/ HandlerReturn(t)

(***************************************************************************)
(* JSON documents.  Every value has the same record shape, so that any two *)
(* values can be compared: t is the type, s the text of a scalar, o the    *)
(* members of an object (a Python dict).                                   *)
(***************************************************************************)
JNone == [t |-> "none", s |-> "", o |-> EmptyDict]
JNull == [t |-> "null", s |-> "", o |-> EmptyDict]
JStr(x) == [t |-> "str", s |-> x, o |-> EmptyDict]
JNum(x) == [t |-> "num", s |-> x, o |-> EmptyDict]
JList(x) == [t |-> "list", s |-> x, o |-> EmptyDict]
JObj(members) == [t |-> "obj", s |-> "", o |-> members]

\* isinstance(x, dict)
IsDict(j) == j.t = "obj"

\* "k in d" for a dict d
HasKey(j, k) == k \in DOMAIN j.o

\* Python truthiness of a JSON value (used by "x or {}")
Truthy(j) ==
    CASE j.t = "none" -> FALSE
      [] j.t = "null" -> FALSE
      [] j.t = "str"  -> j.s # ""
      [] j.t = "num"  -> j.s # "0"
      [] j.t = "list" -> j.s # "[]"
      [] j.t = "obj"  -> DOMAIN j.o # {}

(***************************************************************************)
(* VaultClient (src/nginx/vault.py).  A backend b is the state of the      *)
(* secrets service as one request sees it:                                 *)
(*   b.mounts : how GET /v1/sys/mounts is answered                         *)
(*   b.kv     : the KV version the mount really has (1 or 2)               *)
(*   b.read   : how the read of the secret is answered at transport level  *)
(*   b.fields : the document stored at the configured path, JNone if the   *)
(*              path holds no secret                                       *)
(***************************************************************************)
Returned(v) == [exc |-> "none", val |-> v]
Raised(e) == [exc |-> e, val |-> JNone]

SysMountsPath == <<"/v1/sys/mounts">>

\* f"/v1/{mnt}/data/{path}" and f"/v1/{mnt}/{path}"
ApiPath(mnt, path, ver) ==
    IF ver = 2 THEN <<"/v1/", mnt, "/data/", path>>
               ELSE <<"/v1/", mnt, "/", path>>

\* What the secrets service sends back for a GET of urlpath: an HTTP
\* exchange that fails, or a body.
VaultServer(b, mnt, path, urlpath) ==
    IF urlpath = SysMountsPath
    THEN b.mounts
    ELSE IF b.read # "ok"
         THEN [kind |-> b.read, doc |-> JNone]
         ELSE IF urlpath = ApiPath(mnt, path, b.kv) /\ b.fields # JNone
              THEN [kind |-> "json",
                    doc |-> IF b.kv = 2
                            THEN JObj(("data" :> JObj(("data" :> b.fields))))
                            ELSE JObj(("data" :> b.fields))]
              ELSE [kind |-> "httperror", doc |-> JNone]

\* the element of a one-element set; {f(x) : x \in {e}} evaluates e once
Only(S) == CHOOSE x \in S : TRUE

\* VaultClient._req lines 44-54 with a body that is not JSON taken as {}
ReqResultLenient(resp) ==
    CASE resp.kind = "httperror" -> Raised("VaultError")
      [] resp.kind = "urlerror"  -> Raised("VaultError")
      [] resp.kind = "empty"     -> Returned(JObj(EmptyDict))
      [] resp.kind = "nonjson"   -> Returned(JObj(EmptyDict))
      [] resp.kind = "json"      -> Returned(resp.doc)

\* VaultClient._req lines 44-54: what becomes of the exchange resp
ReqResult(resp) ==
    CASE resp.kind = "httperror" -> Raised("VaultError")
      [] resp.kind = "urlerror"  -> Raised("VaultError")
      [] resp.kind = "empty"     -> Returned(JObj(EmptyDict))
      [] resp.kind = "nonjson"   -> Raised("VaultError")
      [] resp.kind = "json"      -> Returned(resp.doc)

\* VaultClient._req
VaultReq(b, mnt, path, urlpath) ==
    Only({ReqResult(resp) : resp \in {VaultServer(b, mnt, path, urlpath)}})

\* resp["data"][f"{mnt}/"]["options"].get("version", "1"), JNone when the
\* expression raises
MountVersionOption(resp, mnt) ==
    LET key == mnt \o "/" IN
    IF /\ IsDict(resp) /\ HasKey(resp, "data")
       /\ IsDict(resp.o["data"]) /\ HasKey(resp.o["data"], key)
       /\ IsDict(resp.o["data"].o[key])
       /\ HasKey(resp.o["data"].o[key], "options")
       /\ IsDict(resp.o["data"].o[key].o["options"])
    THEN LET options == resp.o["data"].o[key].o["options"] IN
         IF HasKey(options, "version") THEN options.o["version"]
                                       ELSE JStr("1")
    ELSE JNone

\* detect_kv_version lines 62-64: from the option read to 1 or 2
VersionOf(version) ==
    IF version = JNone
    THEN [exc |-> "none", ver |-> 1]
    ELSE [exc |-> "none",
          ver |-> IF version.t \in {"str", "num"} /\ version.s = "2"
                  THEN 2 ELSE 1]

\* detect_kv_version lines 60-64, r being what _req gave on line 59
DetectFrom(r, mnt) ==
    IF r.exc # "none"
    THEN [exc |-> r.exc, ver |-> 0]
    ELSE Only({VersionOf(version) :
                   version \in {MountVersionOption(r.val, mnt)}})

\* VaultClient.detect_kv_version
detect_kv_version(b, mnt, path) ==
    Only({DetectFrom(r, mnt) : r \in {VaultReq(b, mnt, path, SysMountsPath)}})

\* get_kv lines 85-92 without the unwrapping of lines 87-88
ExtractFieldNoUnwrap(r, ver, key) ==
    IF r.exc # "none"
    THEN Raised(r.exc)
    ELSE IF ~IsDict(r.val)
         THEN Raised("AttributeError")
         ELSE LET d1 == IF HasKey(r.val, "data") /\ Truthy(r.val.o["data"])
                        THEN r.val.o["data"] ELSE JObj(EmptyDict)
              IN  IF ~IsDict(d1)
                  THEN Raised("AttributeError")
                  ELSE IF ~HasKey(d1, key) \/ d1.o[key].t = "null"
                       THEN Returned(JNone)
                       ELSE Returned(JStr(d1.o[key].s))

\* get_kv lines 85-92, r being what _req gave on line 84
ExtractField(r, ver, key) ==
    IF r.exc # "none"
    THEN Raised(r.exc)
    ELSE IF ~IsDict(r.val)
         THEN Raised("AttributeError")
         ELSE LET d1 == IF HasKey(r.val, "data") /\ Truthy(r.val.o["data"])
                        THEN r.val.o["data"] ELSE JObj(EmptyDict)
                  d2 == IF ver = 2 /\ IsDict(d1) /\ HasKey(d1, "data")
                        THEN IF Truthy(d1.o["data"]) THEN d1.o["data"]
                             ELSE JObj(EmptyDict)
                        ELSE d1
              IN  IF ~IsDict(d2)
                  THEN Raised("AttributeError")
                  ELSE IF ~HasKey(d2, key) \/ d2.o[key].t = "null"
                       THEN Returned(JNone)
                       ELSE Returned(JStr(d2.o[key].s))

\* get_kv lines 80-92, d being what detect_kv_version gave on line 79
ReadSecret(b, mnt, path, key, d) ==
    IF d.exc # "none"
    THEN Raised(d.exc)
    ELSE Only({ExtractField(r, d.ver, key) :
                   r \in {VaultReq(b, mnt, path, ApiPath(mnt, path, d.ver))}})

\* VaultClient.get_kv with version=None: the value (a string), JNone for
\* None, or the exception that leaves it
get_kv(b, mnt, path, key) ==
    Only({ReadSecret(b, mnt, path, key, d) :
              d \in {detect_kv_version(b, mnt, path)}})

(***************************************************************************)
(* MCPAdapterProxy (src/nginx/litellm-to-openwebui-proxy.py)               *)
(***************************************************************************)

\* Text is a sequence of pieces; Join gives the string it spells.
RECURSIVE Join(_)
Join(pieces) ==
    IF pieces = <<>> THEN "" ELSE Head(pieces) \o Join(Tail(pieces))

IsSpace(piece) == piece \in {" ", "\t"}

\* str.lstrip() in the place of str.strip(): trailing whitespace is kept
StripLeadingOnly(text) ==
    LET keep == {i \in 1..Len(text) : ~IsSpace(text[i])} IN
    IF keep = {} THEN <<>>
    ELSE LET first == CHOOSE i \in keep : \A j \in keep : i <= j
         IN  SubSeq(text, first, Len(text))

\* str.strip()
Strip(text) ==
    LET keep == {i \in 1..Len(text) : ~IsSpace(text[i])} IN
    IF keep = {} THEN <<>>
    ELSE LET first == CHOOSE i \in keep : \A j \in keep : i <= j
             last  == CHOOSE i \in keep : \A j \in keep : j <= i
         IN  SubSeq(text, first, last)

\* str.split(None, 1) of a stripped text
SplitOnce(text) ==
    LET spaces == {i \in 1..Len(text) : IsSpace(text[i])} IN
    IF text = <<>> THEN <<>>
    ELSE IF spaces = {} THEN <<text>>
    ELSE LET cut  == CHOOSE i \in spaces : \A j \in spaces : i <= j
             rest == CHOOSE i \in (cut + 1)..Len(text) :
                         /\ ~IsSpace(text[i])
                         /\ \A j \in (cut + 1)..(i - 1) : IsSpace(text[j])
         IN  <<SubSeq(text, 1, cut - 1), SubSeq(text, rest, Len(text))>>

\* _get_auth_key lines 122-124 with the scheme compared without case
KeyOfPartsAnyCase(parts) ==
    IF Len(parts) # 2 \/ Join(parts[1]) \notin {"Bearer", "bearer"}
    THEN [exc |-> "ValueError", key |-> ""]
    ELSE [exc |-> "none", key |-> Join(parts[2])]

\* _get_auth_key lines 122-124
KeyOfParts(parts) ==
    IF Len(parts) # 2 \/ Join(parts[1]) # "Bearer"
    THEN [exc |-> "ValueError", key |-> ""]
    ELSE [exc |-> "none", key |-> Join(parts[2])]

\* MCPAdapterProxy._get_auth_key
_get_auth_key(text) ==
    Only({KeyOfParts(parts) :
              parts \in {SplitOnce(stripped) : stripped \in {Strip(text)}}})

\* Settings (the defaults of parse_args; --path has none and is required)
SettingsLitellmUrl == "http://litellm:4000/mcp-rest/tools/call"
SettingsMount == "secret"
SettingsPath == "openwebui"
SettingsEnableCors == FALSE

\* MCPAdapterProxy.__init__: the attributes the handlers read through self
AdapterConstructed ==
    [settings |-> [litellm_url |-> SettingsLitellmUrl,
                   enable_cors |-> SettingsEnableCors,
                   mount |-> SettingsMount,
                   path |-> SettingsPath],
     vault_client |-> [mount |-> SettingsMount]]

\* lines 139-141 without the None test: a missing field gives an empty secret
SecretOrEmpty(key, r) ==
    IF r.exc # "none"
    THEN [exc |-> r.exc, called |-> TRUE, key |-> key, secret |-> ""]
    ELSE IF r.val = JNone
         THEN [exc |-> "none", called |-> TRUE, key |-> key, secret |-> ""]
         ELSE [exc |-> "none", called |-> TRUE, key |-> key,
               secret |-> r.val.s]

\* _fetch_secret_for_authorization lines 139-141, r being what get_kv gave
SecretOrError(key, r) ==
    IF r.exc # "none"
    THEN [exc |-> r.exc, called |-> TRUE, key |-> key, secret |-> ""]
    ELSE IF r.val = JNone
         THEN [exc |-> "ValueError", called |-> TRUE, key |-> key,
               secret |-> ""]
         ELSE [exc |-> "none", called |-> TRUE, key |-> key,
               secret |-> r.val.s]

\* lines 137-141 reached whatever _get_auth_key gave: a value that does not
\* parse is looked up under the empty key
FetchWithKeyAlways(b, k) ==
    Only({SecretOrError(IF k.exc # "none" THEN "" ELSE k.key, r) :
              r \in {get_kv(b, adapter.vault_client.mount,
                            adapter.settings.path,
                            IF k.exc # "none" THEN "" ELSE k.key)}})

\* _fetch_secret_for_authorization lines 137-141, k being what
\* _get_auth_key gave on line 136
FetchWithKey(b, k) ==
    IF k.exc # "none"
    THEN [exc |-> k.exc, called |-> FALSE, key |-> "", secret |-> ""]
    ELSE Only({SecretOrError(k.key, r) :
                   r \in {get_kv(b, adapter.vault_client.mount,
                                 adapter.settings.path, k.key)}})

\* MCPAdapterProxy._fetch_secret_for_authorization against backend b
_fetch_secret_for_authorization(b, authorization) ==
    Only({FetchWithKey(b, k) : k \in {_get_auth_key(authorization)}})

\* Inputs --------------------------------------------------------------

Tokens == {"t" \o ToString(i) : i \in 1..NumTokens}
Secrets == {"sk-" \o ToString(i) : i \in 1..NumSecrets}

\* the one token the secret at SettingsPath has a field for
KnownToken == "t1"

\* {tool_id:path}: any path, the empty one included
ToolIds == {"put_key_value", "ns/get_value_by_key", ""}

NoHeader == <<"(absent)">>

ContentTypes == {<<"application/json">>,
                 <<"application/json", "; charset=utf-8">>,
                 <<"text/plain">>,
                 NoHeader}

AuthHeaders ==
    {<<"Bearer", " ", t>> : t \in Tokens}
    \cup {NoHeader, <<>>, <<"Token", " ", "abc">>, <<"Bearer">>,
          <<"bearer", " ", KnownToken>>,
          <<"Bearer", " ", " ", KnownToken>>,
          <<" ", "Bearer", "\t", " ", KnownToken, " ">>}

\* headers of a request: a dict from lower-case header name to its text
HeadersOf(ct, auth) ==
    [n \in {"user-agent"}
           \cup (IF ct = NoHeader THEN {} ELSE {"content-type"})
           \cup (IF auth = NoHeader THEN {} ELSE {"authorization"})
       |-> CASE n = "user-agent" -> <<"openwebui">>
             [] n = "content-type" -> ct
             [] n = "authorization" -> auth]

\* request.headers.get(name, "")
HeaderGet(headers, name) == DictGet(headers, name, <<>>)

ArgObjects == {JObj(EmptyDict), JObj(("q" :> JStr("v")))}

NameMembers == {JNone, JStr("other_tool"), JStr(""), JNull}
ArgumentsMembers == {JNone, JStr("bad")} \cup ArgObjects
ExtraMembers == {JNone, JStr("v")}

\* a JSON object with the members that are not JNone
ObjectOf(name, arguments, extra) ==
    JObj([f \in (IF name = JNone THEN {} ELSE {"name"})
                \cup (IF arguments = JNone THEN {} ELSE {"arguments"})
                \cup (IF extra = JNone THEN {} ELSE {"q"})
            |-> CASE f = "name" -> name
                  [] f = "arguments" -> arguments
                  [] f = "q" -> extra])

JsonDocs ==
    {ObjectOf(n, a, e) : n \in NameMembers, a \in ArgumentsMembers,
                         e \in ExtraMembers}
    \cup {JList("[1]"), JStr("text"), JNull}

\* request bodies: the bytes are empty, not UTF-8, not JSON, or spell doc
Bodies ==
    {[enc |-> e, doc |-> JNone] : e \in {"empty", "badutf8", "badjson"}}
    \cup {[enc |-> "json", doc |-> d] : d \in JsonDocs}

MountsDoc(ver) ==
    JObj(("data" :>
        JObj(((SettingsMount \o "/") :>
            JObj(("options" :> JObj(("version" :> JStr(ver)))))))))

\* the states of the secrets service a request may meet
Backends ==
    {[mounts |-> [kind |-> "json", doc |-> MountsDoc(ToString(kv))],
      kv |-> kv, read |-> "ok", fields |-> f] :
        kv \in {1, 2},
        f \in {JNone} \cup {JObj((KnownToken :> JStr(sec))) : sec \in Secrets}}
    \cup {[mounts |-> [kind |-> "urlerror", doc |-> JNone],
           kv |-> 1, read |-> "urlerror", fields |-> JNone],
          [mounts |-> [kind |-> "json", doc |-> MountsDoc("1")],
           kv |-> 1, read |-> "nonjson", fields |-> JNone]}

\* what the gateway does with a POST: it answers, or the exchange fails
\* with an httpx.RequestError
UpstreamOutcomes ==
    {[kind |-> "response", status |-> st, content |-> c, ctype |-> ct] :
        st \in {200, 404, 500},
        c \in {"{\"result\": 1}", ""},
        ct \in {<<"application/json">>, <<"application/problem+json">>,
                NoHeader}}
    \cup {[kind |-> "error", status |-> 0, content |-> cause,
           ctype |-> NoHeader] :
        cause \in {"ConnectError", "ReadTimeout"}}

\* Local state ---------------------------------------------------------

Unbound == [bound |-> FALSE, dict |-> EmptyDict]
Bound(d) == [bound |-> TRUE, dict |-> d]

NoRequest == [tool_id |-> "", headers |-> EmptyDict,
              body |-> [enc |-> "empty", doc |-> JNone]]
NoResponse == [kind |-> "none", status |-> 0, body |-> JNone,
               media_type |-> <<>>]

ProxyInit ==
    /\ pc = "idle"
    /\ request = NoRequest
    /\ body_json = JNone
    /\ payload = JNone
    /\ fwd_headers = Unbound
    /\ warnings = <<>>
    /\ vaultLog = <<>>
    /\ posts = <<>>
    /\ response = NoResponse
    /\ adapter = AdapterConstructed
    /\ lastForwarded = ""

\* FastAPI routes a POST /mcp-rest/tools/call/{tool_id:path} to call_tool
Receive ==
    /\ UNCHANGED <<storeVars, taskVars, vaultVars, clientVars, adapter,
                   lastForwarded>>
    /\ pc = "idle"
    /\ \E tid \in ToolIds, ct \in ContentTypes, auth \in AuthHeaders,
          b \in Bodies :
           request' = [tool_id |-> tid, headers |-> HeadersOf(ct, auth),
                       body |-> b]
    /\ pc' = "received"
    /\ body_json' = JNone
    /\ payload' = JNone
    /\ fwd_headers' = Unbound
    /\ warnings' = <<>>
    /\ vaultLog' = <<>>
    /\ posts' = <<>>
    /\ response' = NoResponse

\* content_type.startswith("application/json")
IsJsonContentType(ct) == Len(ct) >= 1 /\ ct[1] = "application/json"

\* call_tool lines 224-234 without the isinstance test of line 230
ParsedBodyKeepsNonObject(req) ==
    LET ct == HeaderGet(req.headers, "content-type") IN
    IF IsJsonContentType(ct) /\ req.body.enc # "empty"
    THEN IF req.body.enc = "json"
         THEN [raised |-> FALSE, json |-> req.body.doc]
         ELSE [raised |-> TRUE, json |-> JNone]
    ELSE [raised |-> FALSE, json |-> JNone]

\* call_tool lines 224-234 without the Content-Type test of line 227
ParsedBodyAnyContentType(req) ==
    IF req.body.enc # "empty"
    THEN IF req.body.enc = "json"
         THEN [raised |-> FALSE,
               json |-> IF IsDict(req.body.doc) THEN req.body.doc ELSE JNone]
         ELSE [raised |-> TRUE, json |-> JNone]
    ELSE [raised |-> FALSE, json |-> JNone]

\* call_tool lines 224-234: the parsed body, and whether parsing raised
ParsedBody(req) ==
    LET ct == HeaderGet(req.headers, "content-type") IN
    IF IsJsonContentType(ct) /\ req.body.enc # "empty"
    THEN IF req.body.enc = "json"
         THEN [raised |-> FALSE,
               json |-> IF IsDict(req.body.doc) THEN req.body.doc ELSE JNone]
         ELSE [raised |-> TRUE, json |-> JNone]
    ELSE [raised |-> FALSE, json |-> JNone]

ReadBody ==
    /\ UNCHANGED <<storeVars, taskVars, vaultVars, clientVars, adapter,
                   lastForwarded>>
    /\ pc = "received"
    /\ LET p == ParsedBody(request) IN
       /\ body_json' = p.json
       /\ warnings' = IF p.raised
                      THEN Append(warnings, "Invalid JSON body")
                      ELSE warnings
    /\ pc' = "parsed"
    /\ UNCHANGED <<request, payload, fwd_headers, vaultLog, posts, response>>

\* call_tool lines 236-250, with the test of line 244 made before the
\* test of line 242
BuildPayloadRule3First(tool_id, bj) ==
    IF bj = JNone
    THEN JObj([name |-> JStr(tool_id), arguments |-> JObj(EmptyDict)])
    ELSE IF HasKey(bj, "arguments") /\ IsDict(bj.o["arguments"])
         THEN JObj([name |-> IF HasKey(bj, "name") THEN bj.o["name"]
                             ELSE JStr(tool_id),
                    arguments |-> bj.o["arguments"]])
         ELSE IF HasKey(bj, "name") /\ HasKey(bj, "arguments")
              THEN bj
              ELSE JObj([name |-> JStr(tool_id), arguments |-> bj])

\* call_tool lines 236-250 without the branch of lines 244-247
BuildPayloadWithoutRule3(tool_id, bj) ==
    IF bj = JNone
    THEN JObj([name |-> JStr(tool_id), arguments |-> JObj(EmptyDict)])
    ELSE IF HasKey(bj, "name") /\ HasKey(bj, "arguments")
         THEN bj
         ELSE JObj([name |-> JStr(tool_id), arguments |-> bj])

\* call_tool lines 236-250 with line 243 putting the path identifier in the
\* place of the body's name
BuildPayloadRule2NameFromPath(tool_id, bj) ==
    IF bj = JNone
    THEN JObj([name |-> JStr(tool_id), arguments |-> JObj(EmptyDict)])
    ELSE IF HasKey(bj, "name") /\ HasKey(bj, "arguments")
         THEN JObj([f \in DOMAIN bj.o |->
                       IF f = "name" THEN JStr(tool_id) ELSE bj.o[f]])
         ELSE IF HasKey(bj, "arguments") /\ IsDict(bj.o["arguments"])
              THEN JObj([name |-> IF HasKey(bj, "name") THEN bj.o["name"]
                                  ELSE JStr(tool_id),
                         arguments |-> bj.o["arguments"]])
              ELSE JObj([name |-> JStr(tool_id), arguments |-> bj])

\* call_tool lines 236-250 without the isinstance test of line 244
BuildPayloadRule3AnyArguments(tool_id, bj) ==
    IF bj = JNone
    THEN JObj([name |-> JStr(tool_id), arguments |-> JObj(EmptyDict)])
    ELSE IF HasKey(bj, "name") /\ HasKey(bj, "arguments")
         THEN bj
         ELSE IF HasKey(bj, "arguments")
              THEN JObj([name |-> IF HasKey(bj, "name") THEN bj.o["name"]
                                  ELSE JStr(tool_id),
                         arguments |-> bj.o["arguments"]])
              ELSE JObj([name |-> JStr(tool_id), arguments |-> bj])

\* call_tool lines 236-250
BuildPayloadOf(tool_id, bj) ==
    IF bj = JNone
    THEN JObj([name |-> JStr(tool_id), arguments |-> JObj(EmptyDict)])
    ELSE IF HasKey(bj, "name") /\ HasKey(bj, "arguments")
         THEN bj
         ELSE IF HasKey(bj, "arguments") /\ IsDict(bj.o["arguments"])
              THEN JObj([name |-> IF HasKey(bj, "name") THEN bj.o["name"]
                                  ELSE JStr(tool_id),
                         arguments |-> bj.o["arguments"]])
              ELSE JObj([name |-> JStr(tool_id), arguments |-> bj])

BuildPayload ==
    /\ UNCHANGED <<storeVars, taskVars, vaultVars, clientVars, adapter,
                   lastForwarded>>
    /\ pc = "parsed"
    /\ payload' = BuildPayloadOf(request.tool_id, body_json)
    /\ pc' = "normalized"
    /\ UNCHANGED <<request, body_json, fwd_headers, warnings, vaultLog,
                   posts, response>>

\* the record of a get_kv call: what was asked, what the secret at the path
\* held, and what came back
VaultCall(b, r) ==
    [path |-> adapter.settings.path, key |-> r.key, fields |-> b.fields,
     exc |-> r.exc, secret |-> r.secret]

\* call_tool lines 252-261 with line 255 putting the caller's own value in
\* place of the resolved one
ForwardAuthorizationStepCopiesCaller(b) ==
    \E r \in {_fetch_secret_for_authorization(
                  b, HeaderGet(request.headers, "authorization"))} :
        /\ vaultLog' = IF r.called
                       THEN Append(vaultLog, VaultCall(b, r))
                       ELSE vaultLog
        /\ IF r.exc = "none"
           THEN /\ fwd_headers' =
                       Bound(("Content-Type" :> "application/json")
                             @@ ("Authorization" :>
                                    Join(HeaderGet(request.headers,
                                                   "authorization"))))
                /\ warnings' = warnings
           ELSE /\ fwd_headers' = fwd_headers
                /\ warnings' =
                       Append(warnings,
                              "Failed to forward Authorization header")

\* call_tool lines 252-261 with a client that keeps the secret it resolved
\* last and answers from it without asking the backend again
ForwardAuthorizationStepCached(b) ==
    \E r \in {IF /\ lastForwarded # ""
                 /\ _get_auth_key(HeaderGet(request.headers,
                                            "authorization")).exc = "none"
              THEN [exc |-> "none", called |-> FALSE, key |-> "",
                    secret |-> lastForwarded]
              ELSE _fetch_secret_for_authorization(
                       b, HeaderGet(request.headers, "authorization"))} :
        /\ vaultLog' = IF r.called
                       THEN Append(vaultLog, VaultCall(b, r))
                       ELSE vaultLog
        /\ IF r.exc = "none"
           THEN /\ fwd_headers' =
                       Bound(("Content-Type" :> "application/json")
                             @@ ("Authorization" :> "Bearer " \o r.secret))
                /\ warnings' = warnings
           ELSE /\ fwd_headers' = fwd_headers
                /\ warnings' =
                       Append(warnings,
                              "Failed to forward Authorization header")

\* call_tool lines 252-261: fwd_headers is assigned on line 257, which is
\* reached only when _fetch_secret_for_authorization returned
ForwardAuthorizationStep(b) ==
    \E r \in {_fetch_secret_for_authorization(
                  b, HeaderGet(request.headers, "authorization"))} :
        /\ vaultLog' = IF r.called
                       THEN Append(vaultLog, VaultCall(b, r))
                       ELSE vaultLog
        /\ IF r.exc = "none"
           THEN /\ fwd_headers' =
                       Bound(("Content-Type" :> "application/json")
                             @@ ("Authorization" :> "Bearer " \o r.secret))
                /\ warnings' = warnings
           ELSE /\ fwd_headers' = fwd_headers
                /\ warnings' =
                       Append(warnings,
                              "Failed to forward Authorization header")

ForwardAuthorization ==
    /\ UNCHANGED <<storeVars, taskVars, vaultVars, clientVars, adapter,
                   lastForwarded>>
    /\ pc = "normalized"
    /\ \E b \in Backends : ForwardAuthorizationStep(b)
    /\ pc' = "credential"
    /\ UNCHANGED <<request, body_json, payload, posts, response>>

\* call_tool lines 263-269
PrintHeaders ==
    /\ UNCHANGED <<storeVars, taskVars, vaultVars, clientVars, adapter,
                   lastForwarded>>
    /\ pc = "credential"
    /\ pc' = "forwarding"
    /\ UNCHANGED <<request, body_json, payload, fwd_headers, warnings,
                   vaultLog, posts, response>>

\* call_tool line 274: the POSTs issued when the exchange ends as u (a
\* retry after a failure would be a second entry)
UpstreamCallsRetryOnError(u) ==
    LET call == [url |-> adapter.settings.litellm_url, json |-> payload,
                 headers |-> fwd_headers.dict, outcome |-> u]
    IN  IF u.kind = "error" THEN <<call, call>> ELSE <<call>>

\* call_tool line 274 with the inbound headers sent on as well
UpstreamCallsWithInboundHeaders(u) ==
    <<[url |-> adapter.settings.litellm_url, json |-> payload,
       headers |-> fwd_headers.dict
                   @@ [n \in DOMAIN request.headers |->
                           Join(request.headers[n])],
       outcome |-> u]>>

UpstreamCalls(u) ==
    <<[url |-> adapter.settings.litellm_url, json |-> payload,
       headers |-> fwd_headers.dict, outcome |-> u]>>

\* call_tool lines 276-277: the Response built from the gateway's answer u
PassThroughAlways200(u) ==
    [kind |-> "passthrough", status |-> 200, body |-> JStr(u.content),
     media_type |-> IF u.ctype = NoHeader THEN <<"application/json">>
                    ELSE u.ctype]

PassThrough(u) ==
    [kind |-> "passthrough", status |-> u.status, body |-> JStr(u.content),
     media_type |-> IF u.ctype = NoHeader THEN <<"application/json">>
                    ELSE u.ctype]

\* call_tool lines 278-280: the JSONResponse for the httpx.RequestError u
UpstreamUnavailableTimeoutAs504(u) ==
    [kind |-> "adapter502",
     status |-> IF u.content = "ReadTimeout" THEN 504 ELSE 502,
     body |-> JObj([detail |-> JStr("Upstream unavailable"),
                    error |-> JStr(u.content)]),
     media_type |-> <<"application/json">>]

UpstreamUnavailable(u) ==
    [kind |-> "adapter502", status |-> 502,
     body |-> JObj([detail |-> JStr("Upstream unavailable"),
                    error |-> JStr(u.content)]),
     media_type |-> <<"application/json">>]

\* call_tool lines 271-280.  Reading the unbound local fwd_headers on line
\* 274 raises UnboundLocalError, which is no httpx.RequestError: it leaves
\* call_tool before client.post is called.
PostUpstream ==
    /\ UNCHANGED <<storeVars, taskVars, vaultVars, clientVars, adapter,
                   lastForwarded>>
    /\ pc = "forwarding"
    /\ IF ~fwd_headers.bound
       THEN /\ posts' = posts
            /\ response' = [kind |-> "unhandled", status |-> 500,
                            body |-> JStr("UnboundLocalError"),
                            media_type |-> <<"text/plain">>]
       ELSE \E u \in UpstreamOutcomes :
                /\ posts' = posts \o UpstreamCalls(u)
                /\ response' = IF u.kind = "response"
                               THEN PassThrough(u)
                               ELSE UpstreamUnavailable(u)
    /\ pc' = "done"
    /\ UNCHANGED <<request, body_json, payload, fwd_headers, warnings,
                   vaultLog>>

\* options_tool line 219 answering as a CORS middleware would
OptionsResponseOk ==
    [kind |-> "preflight", status |-> 200, body |-> JStr("OK"),
     media_type |-> <<"text/plain">>]

\* options_tool line 219: Response(status_code=204)
OptionsResponse ==
    [kind |-> "preflight", status |-> 204, body |-> JStr(""),
     media_type |-> <<>>]

\* FastAPI routes an OPTIONS /mcp-rest/tools/call/{tool_id:path} to
\* options_tool (enable_cors is off: no middleware answers before it)
OptionsTool ==
    /\ UNCHANGED <<storeVars, taskVars, vaultVars, clientVars, adapter,
                   lastForwarded>>
    /\ pc = "idle"
    /\ ~adapter.settings.enable_cors
    /\ \E tid \in ToolIds, auth \in AuthHeaders :
           request' = [tool_id |-> tid, headers |-> HeadersOf(NoHeader, auth),
                       body |-> [enc |-> "empty", doc |-> JNone]]
    /\ response' = OptionsResponse
    /\ pc' = "replied"
    /\ UNCHANGED <<body_json, payload, fwd_headers, warnings, vaultLog,
                   posts>>

\* datetime.now(timezone.utc).isoformat() at two moments
Clock == {"2025-01-01T00:00:00+00:00", "2025-01-01T00:00:01+00:00"}

\* health lines 199-215
HealthBody(now) ==
    JObj([status |-> JStr("ok"),
          timestamp |-> JStr(now),
          settings |->
              JObj([litellm_url |-> JStr(adapter.settings.litellm_url)])])

\* GET /health
Health ==
    /\ UNCHANGED <<storeVars, taskVars, vaultVars, clientVars, adapter,
                   lastForwarded>>
    /\ pc = "idle"
    /\ \E auth \in AuthHeaders :
           request' = [tool_id |-> "", headers |-> HeadersOf(NoHeader, auth),
                       body |-> [enc |-> "empty", doc |-> JNone]]
    /\ \E now \in Clock :
           response' = [kind |-> "health", status |-> 200,
                        body |-> HealthBody(now),
                        media_type |-> <<"application/json">>]
    /\ pc' = "replied"
    /\ UNCHANGED <<body_json, payload, fwd_headers, warnings, vaultLog,
                   posts>>

\* a POST with the resolved secret has been made for the request in hand
SecretSent ==
    /\ posts # <<>>
    /\ "Authorization" \in DOMAIN posts[1].headers
    /\ vaultLog # <<>>

\* the end of a request if fwd_headers were kept on the adapter object
RespondKeepsHeaders ==
    /\ UNCHANGED <<storeVars, taskVars, vaultVars, clientVars, adapter>>
    /\ pc \in {"done", "replied"}
    /\ pc' = "idle"
    /\ request' = NoRequest
    /\ body_json' = JNone
    /\ payload' = JNone
    /\ fwd_headers' = fwd_headers
    /\ warnings' = <<>>
    /\ vaultLog' = <<>>
    /\ posts' = <<>>
    /\ response' = NoResponse
    /\ lastForwarded' = IF SecretSent THEN vaultLog[1].secret
                        ELSE lastForwarded

\* The response has been sent and the handler's frame is gone: the adapter
\* keeps nothing of the request.
Respond ==
    /\ UNCHANGED <<storeVars, taskVars, vaultVars, clientVars, adapter>>
    /\ pc \in {"done", "replied"}
    /\ pc' = "idle"
    /\ request' = NoRequest
    /\ body_json' = JNone
    /\ payload' = JNone
    /\ fwd_headers' = Unbound
    /\ warnings' = <<>>
    /\ vaultLog' = <<>>
    /\ posts' = <<>>
    /\ response' = NoResponse
    /\ lastForwarded' = IF SecretSent THEN vaultLog[1].secret
                        ELSE lastForwarded

ProxyNext ==
    \/ Receive
    \/ ReadBody
    \/ BuildPayload
    \/ ForwardAuthorization
    \/ PrintHeaders
    \/ PostUpstream
    \/ OptionsTool
    \/ Health
    \/ Respond

(***************************************************************************)
(* VaultClient.get_kv as the steps of one call (src/nginx/vault.py 66-92)  *)
(***************************************************************************)

\* the version argument left at its default None
NoVersion == 0

Versions == {NoVersion, 1, 2}

\* a mounts listing in which the mount has the entry e
MountsListing(e) ==
    JObj(("data" :> JObj(((SettingsMount \o "/") :> e))))

\* how GET /v1/sys/mounts may be answered: the mount with its version
\* option, without a version option, with options null, without options,
\* the mount not listed, and the failures of _req
MountsAnswers ==
    {[kind |-> "json", doc |-> MountsDoc(ToString(v))] : v \in {1, 2}}
    \cup {[kind |-> "json", doc |-> d] :
            d \in {MountsListing(JObj(("options" :> JObj(EmptyDict)))),
                   MountsListing(JObj(("options" :> JNull))),
                   MountsListing(JObj(("type" :> JStr("kv")))),
                   JObj(("data" :> JObj(EmptyDict)))}}
    \cup {[kind |-> k, doc |-> JNone] :
            k \in {"httperror", "urlerror", "nonjson", "empty"}}

\* what the secret at the path holds: nothing (no such path), or fields
SecretDocs ==
    {JNone}
    \cup {JObj((KnownToken :> v)) :
            v \in {JStr(sec) : sec \in Secrets} \cup {JNum("5"), JNull}}

\* the states of the secrets service a get_kv call may meet; a mount that
\* lists its version has that version
VaultBackends ==
    {b \in [mounts : MountsAnswers, kv : {1, 2},
            read : {"ok", "urlerror", "nonjson", "empty"},
            fields : SecretDocs] :
        \A v \in {1, 2} :
            b.mounts = [kind |-> "json", doc |-> MountsDoc(ToString(v))]
                => b.kv = v}

NoVaultCall ==
    [backend |-> [mounts |-> [kind |-> "empty", doc |-> JNone], kv |-> 1,
                  read |-> "empty", fields |-> JNone],
     mount |-> "", path |-> "", key |-> "", version |-> NoVersion]

NoReturn == [exc |-> "pending", val |-> JNone]

VaultInit ==
    /\ vpc = "idle"
    /\ vcall = NoVaultCall
    /\ vver = NoVersion
    /\ vreqs = <<>>
    /\ vret = NoReturn

\* client.get_kv(path=..., key=..., version=...) on the client's mount
GetKvCall ==
    /\ UNCHANGED <<storeVars, proxyVars, taskVars, clientVars>>
    /\ vpc = "idle"
    /\ \E b \in VaultBackends, key \in Tokens, version \in Versions :
           vcall' = [backend |-> b, mount |-> SettingsMount,
                     path |-> SettingsPath, key |-> key,
                     version |-> version]
    /\ vpc' = "called"
    /\ vver' = NoVersion
    /\ vreqs' = <<>>
    /\ vret' = NoReturn

\* line 79, `version or ...`: detection is asked for
MustDetectAlways(version) == TRUE

MustDetect(version) == version = NoVersion

\* get_kv line 79
GetKvVersion ==
    /\ UNCHANGED <<storeVars, proxyVars, taskVars, clientVars>>
    /\ vpc = "called"
    /\ IF ~MustDetect(vcall.version)
       THEN /\ vver' = vcall.version
            /\ vpc' = "versioned"
            /\ UNCHANGED <<vreqs, vret>>
       ELSE \E d \in {detect_kv_version(vcall.backend, vcall.mount,
                                        vcall.path)} :
                /\ vreqs' = Append(vreqs, SysMountsPath)
                /\ IF d.exc # "none"
                   THEN /\ vret' = Raised(d.exc)
                        /\ vpc' = "returned"
                        /\ vver' = vver
                   ELSE /\ vver' = d.ver
                        /\ vpc' = "versioned"
                        /\ vret' = vret
    /\ UNCHANGED vcall

\* get_kv lines 80-92
GetKvRead ==
    /\ UNCHANGED <<storeVars, proxyVars, taskVars, clientVars>>
    /\ vpc = "versioned"
    /\ vreqs' = Append(vreqs, ApiPath(vcall.mount, vcall.path, vver))
    /\ \E r \in {VaultReq(vcall.backend, vcall.mount, vcall.path,
                          ApiPath(vcall.mount, vcall.path, vver))} :
           vret' = ExtractField(r, vver, vcall.key)
    /\ vpc' = "returned"
    /\ UNCHANGED <<vcall, vver>>

\* the caller has the result; the client keeps nothing of the call
GetKvReturn ==
    /\ UNCHANGED <<storeVars, proxyVars, taskVars, clientVars>>
    /\ vpc = "returned"
    /\ vpc' = "idle"
    /\ vcall' = NoVaultCall
    /\ vver' = NoVersion
    /\ vreqs' = <<>>
    /\ vret' = NoReturn

VaultNext ==
    \/ GetKvCall
    \/ GetKvVersion
    \/ GetKvRead
    \/ GetKvReturn

(***************************************************************************)
(* The test client (src/secure_mcp/mcp_test_client.py) and the server it   *)
(* talks to (src/secure_mcp/server.py)                                     *)
(***************************************************************************)

\* the tools DataGroupService registers
RegisteredTools == {"put_key_value", "get_value_by_key", "test"}

\* what the server at server_url lists: the tools of DataGroupService, or
\* those of a server that has neither store tool
ToolListings == {RegisteredTools, {"test"}}

\* tool_names has both store tools (the tests of lines 78-79 and 182)
HasStoreTools(names) == {"put_key_value", "get_value_by_key"} \subseteq names

\* json.loads of the text content of a tool result: the dict the tool
\* returned, its message as the string the f-string of store.py spells
ToolResultData(res) ==
    [f \in DOMAIN res |-> IF f = "message" THEN Join(res[f]) ELSE res[f]]

\* MCPClient.run_tests against a server whose store is s, g and which lists
\* listing: the store it leaves, what it raised and in which test
run_tests(s, g, listing) ==
    IF ~HasStoreTools(listing)
    THEN [store |-> s, groups |-> g, raised |-> "AssertionError", test |-> 1]
    ELSE LET p == put(s, g, "test_key", "test_value", "test_group")
             put_data == ToolResultData(p.ret)
             got_data ==
                 ToolResultData(get(p.store, p.groups, "test_key",
                                    "test_group"))
             access_data ==
                 ToolResultData(get(p.store, p.groups, "test_key",
                                    "wrong_group"))
             missing_data ==
                 ToolResultData(get(p.store, p.groups, "non_existent_key",
                                    "test_group"))
             Ended(raised, test) ==
                 [store |-> p.store, groups |-> p.groups,
                  raised |-> raised, test |-> test]
         IN  IF \/ put_data["status"] # "stored"
                \/ put_data["key"] # "test_key"
                \/ put_data["group"] # "test_group"
             THEN Ended("AssertionError", 2)
             ELSE IF "result" \notin DOMAIN got_data
             THEN Ended("KeyError", 3)
             ELSE IF got_data["result"] # "test_value"
             THEN Ended("AssertionError", 3)
             ELSE IF "result" \notin DOMAIN access_data
             THEN Ended("KeyError", 4)
             ELSE IF access_data["result"] # "Access denied"
             THEN Ended("AssertionError", 4)
             ELSE IF "result" \notin DOMAIN missing_data
             THEN Ended("KeyError", 5)
             ELSE IF missing_data["result"] # "Key not found"
             THEN Ended("AssertionError", 5)
             ELSE Ended("none", 5)

ClientInit ==
    /\ mstore = EmptyDict
    /\ mgroups = EmptyDict
    /\ mlisting = RegisteredTools
    /\ cmode = "none"
    /\ cpc = "idle"
    /\ tool_names = {}
    /\ get_result = NoResult
    /\ get_data = NoResult
    /\ success = FALSE
    /\ test_outcome = [raised |-> "none", test |-> 0]

\* main with --health-check, and health_check line 175: the connection is
\* made, or fails and health_check returns False
HealthConnect ==
    /\ cpc = "idle"
    /\ cmode' = "health_check"
    /\ \E listing \in ToolListings, up \in BOOLEAN :
           /\ mlisting' = listing
           /\ cpc' = IF up THEN "connected" ELSE "returned"
    /\ success' = FALSE
    /\ UNCHANGED <<mstore, mgroups, tool_names, get_result, get_data,
                   test_outcome>>
    /\ UNCHANGED <<storeVars, proxyVars, taskVars, vaultVars>>

\* health_check lines 178-183
HealthListTools ==
    /\ cmode = "health_check"
    /\ cpc = "connected"
    /\ tool_names' = mlisting
    /\ IF HasStoreTools(mlisting)
       THEN cpc' = "listed" /\ success' = success
       ELSE cpc' = "returned" /\ success' = FALSE
    /\ UNCHANGED <<mstore, mgroups, mlisting, cmode, get_result, get_data,
                   test_outcome>>
    /\ UNCHANGED <<storeVars, proxyVars, taskVars, vaultVars>>

\* health_check lines 186-189: the result of the put is not looked at
HealthPut ==
    /\ cmode = "health_check"
    /\ cpc = "listed"
    /\ \E r \in {put(mstore, mgroups, "health_check", "ok", "health")} :
           /\ mstore' = r.store
           /\ mgroups' = r.groups
    /\ cpc' = "stored"
    /\ UNCHANGED <<mlisting, cmode, tool_names, get_result, get_data,
                   success, test_outcome>>
    /\ UNCHANGED <<storeVars, proxyVars, taskVars, vaultVars>>

\* health_check lines 191-194
HealthGet ==
    /\ cmode = "health_check"
    /\ cpc = "stored"
    /\ get_result' = get(mstore, mgroups, "health_check", "health")
    /\ cpc' = "fetched"
    /\ UNCHANGED <<mstore, mgroups, mlisting, cmode, tool_names, get_data,
                   success, test_outcome>>
    /\ UNCHANGED <<storeVars, proxyVars, taskVars, vaultVars>>

\* health_check lines 197-203: the reply is decoded and compared, and
\* False is returned when reading get_data["result"] raises KeyError
HealthVerify ==
    /\ cmode = "health_check"
    /\ cpc = "fetched"
    /\ get_data' = ToolResultData(get_result)
    /\ success' = IF "result" \notin DOMAIN get_data' THEN FALSE
                  ELSE get_data'["result"] = "ok"
    /\ cpc' = "returned"
    /\ UNCHANGED <<mstore, mgroups, mlisting, cmode, tool_names, get_result,
                   test_outcome>>
    /\ UNCHANGED <<storeVars, proxyVars, taskVars, vaultVars>>

\* main without --health-check: connect and run_tests
RunTests ==
    /\ cpc = "idle"
    /\ cmode' = "run_tests"
    /\ \E listing \in ToolListings :
           /\ mlisting' = listing
           /\ \E r \in {run_tests(mstore, mgroups, listing)} :
                  /\ mstore' = r.store
                  /\ mgroups' = r.groups
                  /\ test_outcome' = [raised |-> r.raised, test |-> r.test]
    /\ cpc' = "returned"
    /\ UNCHANGED <<tool_names, get_result, get_data, success>>
    /\ UNCHANGED <<storeVars, proxyVars, taskVars, vaultVars>>

\* main's finally and the end of the process: the next run starts afresh
ClientExit ==
    /\ cpc = "returned"
    /\ cpc' = "idle"
    /\ cmode' = "none"
    /\ tool_names' = {}
    /\ get_result' = NoResult
    /\ get_data' = NoResult
    /\ success' = FALSE
    /\ test_outcome' = [raised |-> "none", test |-> 0]
    /\ UNCHANGED <<mstore, mgroups, mlisting>>
    /\ UNCHANGED <<storeVars, proxyVars, taskVars, vaultVars>>

\* put_key_value called by another client of the same server, at any time,
\* on the health key and from its own group or the health group
OtherClientPut ==
    /\ \E v \in Values, g \in {"health", "ops"} :
           \E r \in {put(mstore, mgroups, "health_check", v, g)} :
               /\ mstore' = r.store
               /\ mgroups' = r.groups
    /\ UNCHANGED <<mlisting, cmode, cpc, tool_names, get_result, get_data,
                   success, test_outcome>>
    /\ UNCHANGED <<storeVars, proxyVars, taskVars, vaultVars>>

ClientNext ==
    \/ HealthConnect
    \/ HealthListTools
    \/ HealthPut
    \/ HealthGet
    \/ HealthVerify
    \/ RunTests
    \/ ClientExit
    \/ OtherClientPut

Init == StoreInit /\ ProxyInit /\ TasksInit /\ VaultInit /\ ClientInit

ClientSpec == Init /\ [][ClientNext]_vars

StoreSpec == Init /\ [][StoreNext]_vars

ProxySpec == Init /\ [][ProxyNext]_vars

TasksSpec == Init /\ [][TasksNext]_vars

VaultSpec == Init /\ [][VaultNext]_vars


(***************************************************************************)
(* Properties of MCPAdapterProxy.call_tool                                 *)
(***************************************************************************)

\* the Authorization value of the request in hand, as call_tool reads it
InboundAuthorization == HeaderGet(request.headers, "authorization")

MalformedAuthorization == _get_auth_key(InboundAuthorization).exc # "none"

\* the secrets backend was asked and gave no secret
ResolutionFailed ==
    /\ ~MalformedAuthorization
    /\ Len(vaultLog) = 1
    /\ vaultLog[1].exc # "none"

\* C1: a POST whose Authorization header is malformed, empty or absent
\* still reaches the gateway: exactly one upstream POST is issued, and it
\* carries no Authorization header.
C1_MalformedAuthStillForwarded ==
    (pc = "done" /\ MalformedAuthorization)
        => (/\ Len(posts) = 1
            /\ "Authorization" \notin DOMAIN posts[1].headers)

\* C2: a POST with a well-formed Bearer header whose secret cannot be
\* resolved is not aborted: the normalized payload is still POSTed
\* upstream, without an Authorization header.
C2_ResolutionFailureStillForwarded ==
    (pc = "done" /\ ResolutionFailed)
        => (/\ Len(posts) = 1
            /\ posts[1].json = payload
            /\ "Authorization" \notin DOMAIN posts[1].headers)

\* C3: every request ends Completed (the upstream response passed through)
\* or Failed (the fixed 502), and only after the upstream POST was
\* attempted; no normalization or credential failure ends a request
\* earlier or with another response.
C3_OnlyCompletedOrFailedAfterForward ==
    pc = "done"
        => (/\ response.kind \in {"passthrough", "adapter502"}
            /\ Len(posts) = 1
            /\ response.kind = "adapter502" => response.status = 502)

\* the request body spells a JSON object
BodyIsObject == IsDict(request.body.doc)

\* the request says its body is JSON (the test of line 227)
JsonContentType ==
    IsJsonContentType(HeaderGet(request.headers, "content-type"))

\* call_tool is past line 250: payload is assigned
PayloadBuilt == pc \in {"normalized", "credential", "forwarding", "done"}

\* the payload built for the request in hand is p, and so is the JSON of
\* every POST made for it
PayloadIs(p) ==
    /\ PayloadBuilt => payload = p
    /\ \A i \in 1..Len(posts) : posts[i].json = p

\* the body has both a name and an arguments member (rule 2)
BodyHasBoth ==
    /\ BodyIsObject
    /\ HasKey(request.body.doc, "name")
    /\ HasKey(request.body.doc, "arguments")

\* C11 as stated: for every request body that is a JSON object with both a
\* name and an arguments member, the payload sent upstream is that body
\* unchanged, whatever the tool identifier and the type of arguments.
C11_BothKeysBodyUnchanged ==
    BodyHasBoth => PayloadIs(request.body.doc)

\* C11, amended: for every request whose Content-Type starts with
\* application/json and whose body is a JSON object with both a name and
\* an arguments member, the payload built, and the JSON of any POST sent
\* upstream, is that body unchanged, whatever the tool identifier and the
\* type of arguments.
C11_BothKeysJsonBodyUnchanged ==
    (JsonContentType /\ BodyHasBoth) => PayloadIs(request.body.doc)

C11_Witness ==
    /\ pc = "done"
    /\ JsonContentType
    /\ request.tool_id = "put_key_value"
    /\ request.body.doc =
           ObjectOf(JStr("other_tool"), JStr("bad"), JStr("v"))
    /\ Len(posts) = 1
    /\ posts[1].json = request.body.doc

\* line 240: the payload of a request whose body gave no JSON object
DefaultPayload ==
    JObj([name |-> JStr(request.tool_id), arguments |-> JObj(EmptyDict)])

\* C12: for every body that is missing, empty, not valid JSON, or JSON that
\* is not an object, the payload is {name: <path identifier>, arguments: {}}
\* and the handler goes on from reading the body to building the payload,
\* to the credential step and to the forwarding step: no step of such a
\* request ends it before the forwarding step.
C12_NormalizationTotal ==
    [][~BodyIsObject =>
          /\ PayloadIs(DefaultPayload)
          /\ pc = "received" => pc' = "parsed"
          /\ pc = "parsed" => (pc' = "normalized" /\ payload' = DefaultPayload)
          /\ pc = "normalized" => (pc' = "credential" /\ payload' = payload)
          /\ pc = "credential" => (pc' = "forwarding" /\ payload' = payload)
      ]_vars

C12_Witness ==
    /\ pc = "forwarding"
    /\ JsonContentType
    /\ request.body.enc = "badjson"
    /\ warnings # <<>>
    /\ warnings[1] = "Invalid JSON body"
    /\ payload = DefaultPayload

\* the body has an arguments member that is an object, and no name (the
\* case of rule 3 the path identifier is used in)
BodyArgumentsOnly ==
    /\ BodyIsObject
    /\ ~HasKey(request.body.doc, "name")
    /\ HasKey(request.body.doc, "arguments")
    /\ IsDict(request.body.doc.o["arguments"])

\* line 246: the payload rule 3 builds when the body has no name
InjectedNamePayload ==
    JObj([name |-> JStr(request.tool_id),
          arguments |-> request.body.doc.o["arguments"]])

\* C13 as stated: for every JSON-object body with an arguments member that
\* is an object and no name member, the payload sent upstream is
\* {name: <path identifier>, arguments: body.arguments}.
C13_ArgumentsOnlyBodyGetsName ==
    BodyArgumentsOnly => PayloadIs(InjectedNamePayload)

\* C13, amended: for every request whose Content-Type starts with
\* application/json and whose body is a JSON object with an arguments
\* member that is an object and no name member, the payload built, and the
\* JSON of any POST sent upstream, is
\* {name: <path identifier>, arguments: body.arguments}.
C13_ArgumentsOnlyJsonBodyGetsName ==
    (JsonContentType /\ BodyArgumentsOnly) => PayloadIs(InjectedNamePayload)

C13_Witness ==
    /\ pc = "done"
    /\ JsonContentType
    /\ request.tool_id = "ns/get_value_by_key"
    /\ request.body.doc =
           ObjectOf(JNone, JObj(("q" :> JStr("v"))), JStr("v"))
    /\ Len(posts) = 1
    /\ posts[1].json = JObj([name |-> JStr("ns/get_value_by_key"),
                             arguments |-> JObj(("q" :> JStr("v")))])

\* the body is an object that neither rule 2 nor rule 3 matches
BodyFlat ==
    /\ BodyIsObject
    /\ ~BodyHasBoth
    /\ ~(/\ HasKey(request.body.doc, "arguments")
         /\ IsDict(request.body.doc.o["arguments"]))

\* line 250: the payload rule 4 builds
WholeBodyPayload ==
    JObj([name |-> JStr(request.tool_id), arguments |-> request.body.doc])

\* C14 as stated: for every JSON-object body matched by neither rule 2 nor
\* rule 3, the payload sent upstream is
\* {name: <path identifier>, arguments: <the entire body>}.
C14_FlatBodyBecomesArguments ==
    BodyFlat => PayloadIs(WholeBodyPayload)

\* C14, amended: for every request whose Content-Type starts with
\* application/json and whose body is a JSON object matched by neither
\* rule 2 nor rule 3, the payload built, and the JSON of any POST sent
\* upstream, is {name: <path identifier>, arguments: <the entire body>};
\* the rules are tried in order and the first that matches decides.
C14_FlatJsonBodyBecomesArguments ==
    JsonContentType =>
        /\ BodyFlat => PayloadIs(WholeBodyPayload)
        /\ PayloadBuilt =>
               payload = IF ~BodyIsObject THEN DefaultPayload
                         ELSE IF BodyHasBoth THEN request.body.doc
                         ELSE IF BodyFlat THEN WholeBodyPayload
                         ELSE JObj([name |-> IF HasKey(request.body.doc,
                                                       "name")
                                             THEN request.body.doc.o["name"]
                                             ELSE JStr(request.tool_id),
                                    arguments |->
                                        request.body.doc.o["arguments"]])

C14_Witness ==
    /\ pc = "done"
    /\ JsonContentType
    /\ request.tool_id = "put_key_value"
    /\ request.body.doc = ObjectOf(JNone, JStr("bad"), JNone)
    /\ Len(posts) = 1
    /\ posts[1].json = JObj([name |-> JStr("put_key_value"),
                             arguments |-> request.body.doc])

\* p has the shape of a ToolInvocation: a non-empty string name and an
\* object as arguments
IsToolInvocation(p) ==
    /\ IsDict(p)
    /\ HasKey(p, "name")
    /\ p.o["name"].t = "str"
    /\ p.o["name"].s # ""
    /\ HasKey(p, "arguments")
    /\ IsDict(p.o["arguments"])

\* C15: for every inbound POST, whatever its path identifier and body, the
\* payload sent upstream has a name that is a non-empty string and an
\* arguments member that is a JSON object.
C15_PayloadIsToolInvocation ==
    \A i \in 1..Len(posts) : IsToolInvocation(posts[i].json)

\* call_tool is past line 261: the credential step is over
CredentialStepOver == pc \in {"credential", "forwarding", "done"}

\* _get_auth_key returned a key: get_kv was called with it (line 137)
KeyExtracted == Len(vaultLog) = 1

\* text is "Bearer", one space and a token, and nothing else
ExactBearer(text) ==
    /\ Len(text) = 3
    /\ text[1] = "Bearer"
    /\ text[2] = " "
    /\ ~IsSpace(text[3])

\* text is, between any leading and trailing whitespace, "Bearer", one or
\* more whitespace characters and a token
PaddedBearer(text) ==
    \E i, j \in 1..Len(text) :
        /\ \A k \in 1..(i - 1) : IsSpace(text[k])
        /\ text[i] = "Bearer"
        /\ j > i + 1
        /\ \A k \in (i + 1)..(j - 1) : IsSpace(text[k])
        /\ ~IsSpace(text[j])

\* C16 as stated: credential extraction accepts an Authorization value only
\* if it is exactly "Bearer ", with one space, followed by a token; other
\* schemes, other case, a missing token, more than one separating space,
\* surrounding whitespace and the empty string all fail.
C16_OnlyExactBearerAccepted ==
    CredentialStepOver =>
        (KeyExtracted <=> ExactBearer(InboundAuthorization))

\* C16, amended: credential extraction accepts an Authorization value
\* exactly when, leading and trailing whitespace aside, it is the
\* case-sensitive word "Bearer", one or more whitespace characters and a
\* token; "Bearer " followed by a token yields that token; other schemes,
\* other case, a missing token and the empty or absent value fail.
C16_BearerAcceptedModuloWhitespace ==
    CredentialStepOver =>
        /\ KeyExtracted <=> PaddedBearer(InboundAuthorization)
        /\ ExactBearer(InboundAuthorization) =>
               vaultLog[1].key = InboundAuthorization[3]

C16_Witness ==
    /\ pc = "done"
    /\ InboundAuthorization = <<"Bearer", " ", " ", KnownToken>>
    /\ KeyExtracted
    /\ vaultLog[1].key = KnownToken
    /\ Len(posts) = 1
    /\ posts[1].headers["Authorization"] = "Bearer " \o vaultLog[1].secret

\* C17: whenever a POST sent upstream has an Authorization header, its
\* value is "Bearer " followed by the secret the backend held, at the
\* configured path, under the field named by the caller's token; no header
\* of any upstream request has the caller's own Authorization value.
C17_UpstreamCredentialIsResolvedSecret ==
    \A i \in 1..Len(posts) :
        /\ "Authorization" \in DOMAIN posts[i].headers =>
               /\ KeyExtracted
               /\ PaddedBearer(InboundAuthorization)
               /\ \E j \in 1..Len(InboundAuthorization) :
                      InboundAuthorization[j] = vaultLog[1].key
               /\ vaultLog[1].path = SettingsPath
               /\ HasKey(vaultLog[1].fields, vaultLog[1].key)
               /\ posts[i].headers["Authorization"] =
                      "Bearer "
                          \o vaultLog[1].fields.o[vaultLog[1].key].s
        /\ \A h \in DOMAIN posts[i].headers :
               posts[i].headers[h] # Join(InboundAuthorization)

C17_Witness ==
    /\ pc = "done"
    /\ InboundAuthorization = <<"Bearer", " ", KnownToken>>
    /\ Len(posts) = 1
    /\ vaultLog[1].fields = JObj((KnownToken :> JStr("sk-2")))
    /\ posts[1].headers["Authorization"] = "Bearer sk-2"

\* the POST made for the request in hand was answered by the gateway
UpstreamAnswered ==
    /\ pc = "done"
    /\ Len(posts) = 1
    /\ posts[1].outcome.kind = "response"

\* C18 as stated: whenever the gateway returns an HTTP response, whatever
\* its status, the adapter's response has the same status code, the same
\* body bytes and the same content-type as the gateway's.
C18_UpstreamResponseVerbatim ==
    UpstreamAnswered =>
        /\ response.status = posts[1].outcome.status
        /\ response.body = JStr(posts[1].outcome.content)
        /\ response.media_type = posts[1].outcome.ctype

\* C18, amended: whenever the gateway returns an HTTP response, whatever
\* its status, the adapter's response is built with the same status code
\* and the same body bytes, and with the gateway's content-type as media
\* type when the gateway sent one, application/json when it sent none.
C18_UpstreamResponsePassedThrough ==
    UpstreamAnswered =>
        /\ response.kind = "passthrough"
        /\ response.status = posts[1].outcome.status
        /\ response.body = JStr(posts[1].outcome.content)
        /\ posts[1].outcome.ctype # NoHeader =>
               response.media_type = posts[1].outcome.ctype
        /\ posts[1].outcome.ctype = NoHeader =>
               response.media_type = <<"application/json">>

C18_Witness ==
    /\ UpstreamAnswered
    /\ posts[1].outcome.status = 500
    /\ posts[1].outcome.ctype = <<"application/problem+json">>
    /\ response.status = 500
    /\ response.body = JStr("{\"result\": 1}")
    /\ response.media_type = <<"application/problem+json">>

\* the POST made for the request in hand failed with an httpx.RequestError
UpstreamFailed ==
    /\ pc = "done"
    /\ Len(posts) >= 1
    /\ posts[Len(posts)].outcome.kind = "error"

\* C19: whenever the upstream POST fails at transport level or runs into
\* the timeout, the adapter answers 502 with the JSON body
\* {"detail": "Upstream unavailable", "error": <cause>}, the same for a
\* timeout as for any other transport failure.
C19_TransportFailureIs502 ==
    UpstreamFailed =>
        /\ response.status = 502
        /\ response.media_type = <<"application/json">>
        /\ response.body =
               JObj([detail |-> JStr("Upstream unavailable"),
                     error |-> JStr(posts[Len(posts)].outcome.content)])

C19_Witness ==
    /\ UpstreamFailed
    /\ posts[1].outcome.content = "ReadTimeout"
    /\ response.status = 502
    /\ response.body.o["detail"] = JStr("Upstream unavailable")

\* C20: for each inbound POST at most one upstream POST is attempted;
\* after a transport failure, a timeout or an error status there is no
\* second attempt, and an attempt once made is the last step before the
\* response.
C20_SingleUpstreamAttempt ==
    /\ Len(posts) <= 1
    /\ Len(posts) = 1 => pc = "done"

C20_Witness ==
    /\ pc = "done"
    /\ Len(posts) = 1
    /\ posts[1].outcome.kind = "response"
    /\ posts[1].outcome.status = 500
    /\ response.status = 500
    /\ response.media_type = <<"application/json">>

\* _fetch_secret_for_authorization returned a secret for the request in hand
SecretResolved == KeyExtracted /\ vaultLog[1].exc = "none"

\* C21: every upstream POST has the header Content-Type: application/json,
\* the header Authorization only when a secret was resolved, and no other
\* header: none of the inbound request's headers is sent on.
C21_UpstreamHeadersExact ==
    \A i \in 1..Len(posts) :
        /\ DOMAIN posts[i].headers \subseteq {"Content-Type", "Authorization"}
        /\ "Content-Type" \in DOMAIN posts[i].headers
        /\ posts[i].headers["Content-Type"] = "application/json"
        /\ "Authorization" \in DOMAIN posts[i].headers => SecretResolved
        /\ "user-agent" \notin DOMAIN posts[i].headers

C21_Witness ==
    /\ pc = "done"
    /\ Len(posts) = 1
    /\ DOMAIN request.headers = {"user-agent", "content-type", "authorization"}
    /\ request.headers["content-type"] = <<"text/plain">>
    /\ DOMAIN posts[1].headers = {"Content-Type", "Authorization"}
    /\ posts[1].headers["Content-Type"] = "application/json"

FieldHeld ==
    /\ KeyExtracted
    /\ vaultLog[1].fields # JNone
    /\ HasKey(vaultLog[1].fields, vaultLog[1].key)

\* C27: the adapter caches no secret: every POST with a well-formed Bearer
\* header reads the secrets backend anew, so what it forwards is the secret
\* the backend holds at that read (or nothing when the backend holds none),
\* never the secret an earlier request forwarded.
C27_SecretReadAnewPerRequest ==
    (CredentialStepOver /\ PaddedBearer(InboundAuthorization)) =>
        /\ KeyExtracted
        /\ fwd_headers.bound =>
               /\ FieldHeld
               /\ fwd_headers.dict["Authorization"] =
                      "Bearer " \o vaultLog[1].fields.o[vaultLog[1].key].s
        /\ ~FieldHeld => (~fwd_headers.bound /\ posts = <<>>)
        /\ \A i \in 1..Len(posts) :
               (FieldHeld
                /\ vaultLog[1].fields.o[vaultLog[1].key].s # lastForwarded)
                   => posts[i].headers["Authorization"]
                          # "Bearer " \o lastForwarded

C27_Witness ==
    /\ pc = "done"
    /\ lastForwarded = "sk-1"
    /\ InboundAuthorization = <<"Bearer", " ", KnownToken>>
    /\ vaultLog[1].fields = JObj((KnownToken :> JStr("sk-2")))
    /\ Len(posts) = 1
    /\ posts[1].headers["Authorization"] = "Bearer sk-2"

\* text is, after any leading whitespace, "Bearer", one space character and
\* at least one more character that is not whitespace
StartsWithBearerSpace(text) ==
    \E i, j \in 1..Len(text) :
        /\ \A k \in 1..(i - 1) : IsSpace(text[k])
        /\ text[i] = "Bearer"
        /\ j > i + 1
        /\ text[i + 1] = " "
        /\ ~IsSpace(text[j])

\* key is what text spells between the whitespace that follows "Bearer" and
\* the trailing whitespace of text
KeyPortion(text, key) ==
    \E i, j, k \in 1..Len(text) :
        /\ \A n \in 1..(i - 1) : IsSpace(text[n])
        /\ text[i] = "Bearer"
        /\ j > i + 1
        /\ \A n \in (i + 1)..(j - 1) : IsSpace(text[n])
        /\ ~IsSpace(text[j])
        /\ k >= j
        /\ ~IsSpace(text[k])
        /\ \A n \in (k + 1)..Len(text) : IsSpace(text[n])
        /\ key = Join(SubSeq(text, j, k))

\* the credential step ended in the except branch of line 260
ExtractionRaised == ~KeyExtracted /\ warnings # <<>>

FieldNotFound ==
    /\ KeyExtracted
    /\ vaultLog[1].fields # JNone
    /\ ~HasKey(vaultLog[1].fields, vaultLog[1].key)

\* C32: the caller's bearer token is the field name looked up in the secrets
\* backend at the one configured path; when the backend has no such field
\* the lookup ends in an error (the ValueError of line 140, logged as a
\* failure to forward the credential), and no Authorization header is built
\* from an empty or missing secret.
C32_NotFoundIsResolutionFailure ==
    (CredentialStepOver /\ KeyExtracted) =>
        /\ vaultLog[1].path = adapter.settings.path
        /\ \E j \in 1..Len(InboundAuthorization) :
               InboundAuthorization[j] = vaultLog[1].key
        /\ FieldNotFound =>
               /\ vaultLog[1].exc = "ValueError"
               /\ vaultLog[1].secret = ""
               /\ warnings # <<>>
               /\ warnings[Len(warnings)] =
                      "Failed to forward Authorization header"
               /\ "Authorization" \notin DOMAIN fwd_headers.dict
               /\ \A i \in 1..Len(posts) :
                      "Authorization" \notin DOMAIN posts[i].headers

C32_Witness ==
    /\ pc = "done"
    /\ InboundAuthorization = <<"Bearer", " ", "t2">>
    /\ FieldNotFound
    /\ vaultLog[1].key = "t2"
    /\ vaultLog[1].exc = "ValueError"

\* C34: the request body is considered only when the inbound Content-Type
\* starts with "application/json": for any other or absent Content-Type the
\* body is not parsed (body_json stays None and no parse failure is logged)
\* and the payload is {name: <path identifier>, arguments: {}} whatever the
\* body contains, a JSON object with both name and arguments included.
C34_BodyIgnoredUnlessJsonContentType ==
    ~JsonContentType =>
        /\ PayloadIs(DefaultPayload)
        /\ pc \in {"parsed", "normalized", "credential", "forwarding", "done"}
               => body_json = JNone
        /\ \A i \in 1..Len(warnings) : warnings[i] # "Invalid JSON body"

C34_Witness ==
    /\ pc = "done"
    /\ HeaderGet(request.headers, "content-type") = <<"text/plain">>
    /\ BodyHasBoth
    /\ request.body.doc # DefaultPayload
    /\ Len(posts) = 1
    /\ posts[1].json = DefaultPayload

\* C35: the secrets backend is asked only in the credential step of a
\* request whose Authorization value parses as Bearer plus token, once, and
\* with its answer or failure in hand before the upstream POST: a request
\* with a malformed, empty or absent header never asks it, and the step that
\* issues the POST comes after the credential step and asks nothing.
C35_BackendAskedOnlyForBearerBeforePost ==
    [][/\ Len(vaultLog') > Len(vaultLog) =>
              /\ pc = "normalized"
              /\ pc' = "credential"
              /\ PaddedBearer(InboundAuthorization)
              /\ vaultLog = <<>>
              /\ Len(vaultLog') = 1
              /\ vaultLog'[1].exc \in {"none", "ValueError", "VaultError"}
              /\ posts = <<>>
              /\ posts' = <<>>
       /\ (pc' # "idle" /\ ~PaddedBearer(InboundAuthorization')) =>
              vaultLog' = <<>>
       /\ Len(posts') > Len(posts) =>
              /\ pc = "forwarding"
              /\ vaultLog' = vaultLog
      ]_vars

C35_Witness ==
    /\ pc = "done"
    /\ InboundAuthorization = <<"Bearer", " ", KnownToken>>
    /\ KeyExtracted
    /\ vaultLog[1].exc = "none"
    /\ Len(posts) = 1

\* a POST to the path identifier tool_id whose body is the JSON text of doc,
\* sent as application/json
JsonRequestOf(tool_id, doc) ==
    [tool_id |-> tool_id,
     headers |-> HeadersOf(<<"application/json">>, NoHeader),
     body |-> [enc |-> "json", doc |-> doc]]

\* lines 224-250 applied to such a request: the payload built for it
Normalize(tool_id, doc) ==
    BuildPayloadOf(tool_id, ParsedBody(JsonRequestOf(tool_id, doc)).json)

\* C40: normalization is idempotent: the payload built for a request, sent
\* back as a JSON body to any path identifier, is normalized to that same
\* payload; every payload built has both a name and an arguments member.
C40_NormalizationIdempotent ==
    PayloadBuilt =>
        /\ HasKey(payload, "name")
        /\ HasKey(payload, "arguments")
        /\ \A tool_id \in ToolIds : Normalize(tool_id, payload) = payload

C40_Witness ==
    /\ pc = "normalized"
    /\ JsonContentType
    /\ request.tool_id = "put_key_value"
    /\ request.body.doc = ObjectOf(JNone, JObj(("q" :> JStr("v"))), JNone)
    /\ payload = ObjectOf(JStr("put_key_value"), JObj(("q" :> JStr("v"))),
                          JNone)
    /\ Normalize("ns/get_value_by_key", payload) = payload


(***************************************************************************)
(* Properties of the tool handlers running concurrently on the store       *)
(***************************************************************************)

\* C10: with put_key_value and get_value_by_key invocations in flight
\* together, no store call starts on a store where a put has written the
\* value but not yet the owning group, and every invocation returns what
\* it returns when the store calls run one at a time in the order in
\* which they started.
C10_PutAtomic ==
    /\ \A t \in Tasks :
           (running = t /\ tpc[t] \in {"P11", "G23"})
               => (store = sstore /\ groups = sgroups)
    /\ \A t \in Tasks : tpc[t] = "done" => tret[t] = sret[t]
    /\ running = 0 => (store = sstore /\ groups = sgroups)

C10_Witness ==
    \E t1 \in Tasks, t2 \in Tasks :
        /\ t1 # t2
        /\ running = t1
        /\ tpc[t1] = "P16"
        /\ top[t1].key \in DOMAIN store
        /\ top[t1].key \notin DOMAIN groups
        /\ tpc[t2] = "invoked"

(***************************************************************************)
(* Properties of SecureStore                                               *)
(***************************************************************************)

\* C4: a get of an existing key by a group that never put it returns the
\* error "Group <g> does not contain key <k>", and a get succeeds only
\* when the group is in the key's owning set.
C4_GroupIsolation ==
    lastCall.op = "get" =>
        LET k == lastCall.key
            g == lastCall.group
        IN  /\ (preExisted /\ g \notin DictGet(putters, k, {}))
                => lastResult = [status |-> "error",
                                 message |-> GroupMismatchMessage(g, k)]
            /\ lastResult.status = "success"
                => (preOwned /\ k \in DOMAIN groups /\ g \in groups[k])

C4_Witness ==
    /\ lastCall.op = "get"
    /\ preExisted
    /\ lastCall.group \notin DictGet(putters, lastCall.key, {})
    /\ lastResult.status = "error"

\* C5: a put(k, v, g) followed immediately by get(k, g) returns status
\* "success" with value v.
C5_PutThenGet ==
    (lastCall.op = "get" /\ followsPut)
        => (/\ lastResult.status = "success"
            /\ lastResult.value = lastPut[lastCall.key])

C5_Witness ==
    /\ lastCall.op = "get"
    /\ followsPut
    /\ lastResult.status = "success"
    /\ Cardinality(groups[lastCall.key]) > 1

\* C6: put returns {status, key, group} with status "updated" exactly when
\* the key existed and the group already owned it before the call, and
\* "created" in every other case.
C6_PutStatus ==
    lastCall.op = "put" =>
        LET k == lastCall.key
            g == lastCall.group
            owned == preExisted /\ preOwned
        IN  lastResult = [status |-> IF owned THEN "updated" ELSE "created",
                          key |-> k, group |-> g]

C6_Witness ==
    /\ lastCall.op = "put"
    /\ preExisted
    /\ ~preOwned
    /\ lastResult.status = "created"

\* C7: every put overwrites the value and adds the group to the owners, so
\* a get by any group that has put the key returns the value of the most
\* recent put to that key by any group.
C7_LastWriteWins ==
    /\ \A k \in DOMAIN lastPut :
           /\ k \in DOMAIN store
           /\ store[k] = lastPut[k]
           /\ putters[k] \subseteq DictGet(groups, k, {})
    /\ (lastCall.op = "get"
        /\ lastCall.group \in DictGet(putters, lastCall.key, {}))
       => (/\ lastResult.status = "success"
           /\ lastResult.value = lastPut[lastCall.key])

C7_Witness ==
    /\ lastCall.op = "get"
    /\ lastResult.status = "success"
    /\ Cardinality(DictGet(putters, lastCall.key, {})) > 1
    /\ lastResult.value = lastPut[lastCall.key]

\* C8: a get of a key that no put has written returns the error
\* "Key '<k>' not found", whatever was done to other keys before.
C8_NeverWritten ==
    (lastCall.op = "get" /\ lastCall.key \notin DOMAIN lastPut)
        => lastResult = [status |-> "error",
                         message |-> KeyNotFoundMessage(lastCall.key)]

C8_Witness ==
    /\ lastCall.op = "get"
    /\ lastCall.key \notin DOMAIN lastPut
    /\ DOMAIN lastPut # {}
    /\ lastResult.status = "error"

\* C9: a key is in the value map exactly when it is in the group map with
\* a non-empty owning set.
C9_ValueIffOwners ==
    \A k \in Keys :
        k \in DOMAIN store <=> (k \in DOMAIN groups /\ groups[k] # {})

C9_Witness ==
    /\ lastCall.op = "put"
    /\ lastCall.key \in DOMAIN store
    /\ Cardinality(DOMAIN store) < NumKeys


\* C28: existence and ownership only grow: no put or get removes a key
\* from the value map or a group from a key's owning set, so a get(k, g)
\* that succeeds succeeds ever after.
C28_StoreMonotonic ==
    [][/\ DOMAIN store \subseteq DOMAIN store'
       /\ \A k \in DOMAIN groups :
              /\ k \in DOMAIN groups'
              /\ groups[k] \subseteq groups'[k]
       /\ \A k \in Keys, g \in Groups :
              get(store, groups, k, g).status = "success"
                  => get(store', groups', k, g).status = "success"
      ]_vars

C28_Witness ==
    /\ Cardinality(DOMAIN store) >= 2
    /\ lastCall.op = "get"
    /\ lastResult.status = "success"
    /\ Cardinality(groups[lastCall.key]) >= 2
    /\ putters[lastCall.key] = groups[lastCall.key]

\* C36: get is read-only: whatever its result (success, key not found,
\* group mismatch), a get leaves the value map and every key's owning-group
\* set as they were.
C36_GetReadOnly ==
    [][lastCall'.op = "get" =>
           /\ store' = store
           /\ groups' = groups
           /\ lastResult'.status \in {"success", "error"}
      ]_vars

C36_Witness ==
    /\ lastCall.op = "get"
    /\ lastResult.status = "error"
    /\ lastResult.message = KeyNotFoundMessage(lastCall.key)
    /\ store # EmptyDict
    /\ lastCall.key \notin DOMAIN groups

\* C37: put(k, v, g) changes only key k: every other key keeps its value
\* and its owning-group set (and stays absent if it was absent), and the
\* owning-group set of k after the call is the set before the call plus g.
C37_PutTouchesOnlyItsKey ==
    [][lastCall'.op = "put" =>
           /\ \A j \in Keys \ {lastCall'.key} :
                  /\ (j \in DOMAIN store') = (j \in DOMAIN store)
                  /\ j \in DOMAIN store => store'[j] = store[j]
                  /\ (j \in DOMAIN groups') = (j \in DOMAIN groups)
                  /\ j \in DOMAIN groups => groups'[j] = groups[j]
           /\ groups'[lastCall'.key] =
                  DictGet(groups, lastCall'.key, {}) \cup {lastCall'.group}
      ]_vars

C37_Witness ==
    /\ lastCall.op = "put"
    /\ lastResult.status = "created"
    /\ preExisted
    /\ Cardinality(groups[lastCall.key]) = 2
    /\ \E j \in DOMAIN groups \ {lastCall.key} :
           lastCall.group \notin groups[j]

\* the store after the put last made is made once more, and what that
\* second call returns
PutAgain ==
    put(store, groups, lastCall.key, lastCall.value, lastCall.group)

\* C38: put is idempotent on state: put(k, v, g) made a second time right
\* after the first leaves the value map and the owning sets as the first
\* left them, and returns status "updated".
C38_PutIdempotent ==
    lastCall.op = "put" =>
        /\ PutAgain.store = store
        /\ PutAgain.groups = groups
        /\ PutAgain.ret =
               [status |-> "updated", key |-> lastCall.key,
                group |-> lastCall.group]

C38_Witness ==
    /\ lastCall.op = "put"
    /\ lastResult.status = "created"
    /\ ~preExisted
    /\ PutAgain.ret.status = "updated"
    /\ PutAgain.store = store

\* the store with v in the place of the value held under k
WithValue(k, v) == [j \in DOMAIN store |-> IF j = k THEN v ELSE store[j]]

\* C39: a group that does not own k learns nothing about the value under
\* k: in any two stores that differ only in that value its get(k, g) has
\* the same result, which is the group-mismatch error when k exists and the
\* not-found error when it does not, and has no value member.
C39_NonOwnerLearnsNothing ==
    \A k \in Keys, g \in Groups :
        g \notin DictGet(groups, k, {}) =>
            /\ \A v \in Values :
                   get(WithValue(k, v), groups, k, g)
                       = get(store, groups, k, g)
            /\ get(store, groups, k, g) =
                   [status |-> "error",
                    message |-> IF k \in DOMAIN store
                                THEN GroupMismatchMessage(g, k)
                                ELSE KeyNotFoundMessage(k)]
            /\ (lastCall.op = "get" /\ lastCall.key = k
                                    /\ lastCall.group = g) =>
                   \A v \in Values :
                       lastResult = get(WithValue(k, v), groups, k, g)

C39_Witness ==
    /\ lastCall.op = "get"
    /\ preExisted
    /\ ~preOwned
    /\ store[lastCall.key] = "changed"
    /\ lastResult =
           get(WithValue(lastCall.key, "ok"), groups, lastCall.key,
               lastCall.group)
    /\ lastResult.message =
           GroupMismatchMessage(lastCall.group, lastCall.key)


(***************************************************************************)
(* Properties of VaultClient.get_kv                                        *)
(***************************************************************************)

\* the secrets service answers the read of the call in hand, which asks
\* for the layout the mount has
ReadServed ==
    /\ vpc = "returned"
    /\ vreqs # <<>>
    /\ vreqs[Len(vreqs)] =
           ApiPath(vcall.mount, vcall.path, vcall.backend.kv)
    /\ vcall.backend.read = "ok"

\* no secret is stored at the path
PathMissing == vcall.backend.fields = JNone

\* a secret is stored at the path and has no field of the key's name
KeyMissing ==
    /\ vcall.backend.fields # JNone
    /\ ~HasKey(vcall.backend.fields, vcall.key)

\* C24: get_kv returns None, not an error, both when the secret at the path
\* lacks the requested key and when no secret exists at the path.
C24_MissingKeyOrPathIsNone ==
    (ReadServed /\ (PathMissing \/ KeyMissing)) => vret = Returned(JNone)

\* the caller left the layout to detection and GET /v1/sys/mounts gave no
\* version option of the mount: the request failed, or its answer does not
\* list the mount with a version
DetectionFailed ==
    /\ vcall.version = NoVersion
    /\ vreqs # <<>>
    /\ \A v \in {1, 2} :
           vcall.backend.mounts #
               [kind |-> "json", doc |-> MountsDoc(ToString(v))]

\* C25: when layout detection fails for any reason (the mount-metadata
\* request fails, the mount is not listed, or the answer lacks version
\* options), get_kv takes the flat layout (version 1) and still reads the
\* secret, at the flat path.
C25_DetectionFailureDefaultsToFlat ==
    DetectionFailed =>
        /\ vpc = "versioned" => vver = 1
        /\ vpc = "returned" =>
               /\ vver = 1
               /\ Len(vreqs) = 2
               /\ vreqs[2] = ApiPath(vcall.mount, vcall.path, 1)

\* how the secrets service answered the i-th GET of the call in hand
AnswerKind(i) ==
    VaultServer(vcall.backend, vcall.mount, vcall.path, vreqs[i]).kind

\* C26 as stated: get_kv ends in an error, never in a value and never in
\* None, whenever a request to the backend fails at network or HTTP level
\* or the backend's response is not parsable JSON.
C26_FailedOrUnparsableIsError ==
    (/\ vpc = "returned"
     /\ \E i \in 1..Len(vreqs) :
            AnswerKind(i) \in {"httperror", "urlerror", "nonjson", "empty"})
        => vret.exc # "none"

\* C26, amended: get_kv ends in an error, never in a value and never in
\* None, whenever a request to the backend fails at network or HTTP level
\* or the backend's response has a body that is not empty and is not
\* parsable JSON; the failed request is the last the call issues.
C26_FailedOrNonJsonIsError ==
    (/\ vpc = "returned"
     /\ \E i \in 1..Len(vreqs) :
            AnswerKind(i) \in {"httperror", "urlerror", "nonjson"})
        => /\ vret = Raised("VaultError")
           /\ AnswerKind(Len(vreqs)) \in {"httperror", "urlerror", "nonjson"}

C26_Witness ==
    /\ vpc = "returned"
    /\ Len(vreqs) = 2
    /\ AnswerKind(1) = "json"
    /\ AnswerKind(2) = "nonjson"
    /\ vcall.backend.fields # JNone
    /\ vret = Raised("VaultError")

\* the call in hand is over and its last GET was the read of the secret
SecretRead ==
    /\ vpc = "returned"
    /\ vreqs # <<>>
    /\ vreqs[Len(vreqs)] # SysMountsPath

\* what str(val) gives for the field named key of the object level, None
\* when level has no such field or the field is null
FieldOf(level, key) ==
    IF HasKey(level, key) /\ level.o[key].t # "null"
    THEN Returned(JStr(level.o[key].s))
    ELSE Returned(JNone)

\* C29: with the versioned layout get_kv issues GET /v1/<mount>/data/<path>
\* and takes the field from data.data of the answer, with the flat layout
\* it issues GET /v1/<mount>/<path> and takes the field from data; in both
\* the value returned for key is the field of that name at that level.
C29_LayoutsReadAtTheirLevel ==
    SecretRead =>
        /\ vreqs[Len(vreqs)] =
               IF vver = 2
               THEN <<"/v1/", vcall.mount, "/data/", vcall.path>>
               ELSE <<"/v1/", vcall.mount, "/", vcall.path>>
        /\ \A ans \in {VaultServer(vcall.backend, vcall.mount, vcall.path,
                                   vreqs[Len(vreqs)])} :
               ans.kind = "json" =>
                   vret = IF vver = 2
                          THEN FieldOf(ans.doc.o["data"].o["data"],
                                       vcall.key)
                          ELSE FieldOf(ans.doc.o["data"], vcall.key)

C29_Witness ==
    /\ SecretRead
    /\ vcall.version = NoVersion
    /\ vver = 2
    /\ vreqs[2] = <<"/v1/", "secret", "/data/", "openwebui">>
    /\ vcall.backend.fields = JObj((KnownToken :> JNum("5")))
    /\ vcall.key = KnownToken
    /\ vret = Returned(JStr("5"))

\* C30: a get_kv call that leaves the layout to detection issues GET
\* /v1/sys/mounts once, as its first request, before the read of the
\* secret; a call that forces version 1 or 2 does not issue it, and reads
\* with the forced layout whatever layout the mount has.
C30_MountsQueriedOnceUnlessForced ==
    /\ (vpc \in {"versioned", "returned"} /\ vcall.version = NoVersion) =>
           /\ vreqs # <<>>
           /\ vreqs[1] = SysMountsPath
           /\ Len(vreqs) <= 2
           /\ \A i \in 2..Len(vreqs) : vreqs[i] # SysMountsPath
    /\ (vpc \in {"versioned", "returned"} /\ vcall.version # NoVersion) =>
           /\ vver = vcall.version
           /\ \A i \in 1..Len(vreqs) : vreqs[i] # SysMountsPath
           /\ vpc = "returned" =>
                  vreqs = <<ApiPath(vcall.mount, vcall.path, vcall.version)>>

C30_Witness ==
    /\ vpc = "returned"
    /\ vcall.version = 1
    /\ vcall.backend.kv = 2
    /\ vcall.backend.mounts = [kind |-> "json", doc |-> MountsDoc("2")]
    /\ vreqs = <<<<"/v1/", "secret", "/", "openwebui">>>>
    /\ vret = Raised("VaultError")

(***************************************************************************)
(* Properties of the test client's health_check                            *)
(***************************************************************************)

\* C33: the health check of mcp_test_client.py returns True whenever the
\* server lists both put_key_value and get_value_by_key and the put of
\* ("health_check", "ok", "health") followed by the get of that key by that
\* group succeeds against the store.
C33_HealthyWhenPutThenGetSucceed ==
    (/\ cmode = "health_check"
     /\ cpc = "returned"
     /\ HasStoreTools(tool_names)
     /\ get_result.status = "success"
     /\ get_result.value = "ok") => success

=============================================================================
